---------------------------- MODULE Spec2Model ----------------------------
(***************************************************************************)
(* Lock-based concurrent data structures and locking idioms of the         *)
(* repository, modelled as state machines:                                 *)
(*   - the coarse-grained threadsafe_queue (shared_ptr version),           *)
(*     learn/chapter-6.cpp:169-234;                                        *)
(*   - the fine-grained (two-mutex, dummy-node) threadsafe_queue,          *)
(*     learn/chapter-6.cpp:412-474;                                        *)
(*   - threadsafe_list with hand-over-hand locking,                        *)
(*     learn/chapter-6.cpp:539-628;                                        *)
(*   - threadsafe_stack, learn/chapter-3.cpp:194-256;                      *)
(*   - swap(X&, X&) with std::lock, unnamed/part_000:104-130;              *)
(*   - hierarchical_mutex with thread_a and thread_b,                      *)
(*     unnamed/part_000:164-281;                                           *)
(*   - the demonstration program folding a list, learn/chapter-6.cpp:636-794; *)
(*   - thread_guard and f(), unnamed/part_000:9-66;                        *)
(*   - the Makefile.                                                       *)
(* Every structure has its own group of variables and its own              *)
(* specification; a specification leaves the other groups unchanged.       *)
(***************************************************************************)
EXTENDS Integers, Sequences, FiniteSets, TLC

(***************************************************************************)
(* Bounds of the model.                                                    *)
(***************************************************************************)
\* threads calling the coarse-grained queue
NThreads == 3
\* item values are 1..MaxVal
MaxVal == 2
\* push calls on the coarse-grained queue in one behaviour
MaxPush == 2

\* threads calling the fine-grained queue
NFqThreads == 2
\* push calls on the fine-grained queue in one behaviour
MaxFqPush == 2

\* threads calling threadsafe_list
NListThreads == 2
\* push_front calls on the list in one behaviour
MaxListPush == 3
\* the push_front calls in a run of concurrent threads on the list
MaxListConcPush == 1

\* threads calling threadsafe_stack
NStackThreads == 2
\* push calls on the stack in one behaviour
MaxStackPush == 3

\* threads calling swap
NSwapThreads == 2
\* swap calls on two different instances in one behaviour
MaxSwaps == 3

\* threads running thread_a and thread_b
NHierThreads == 2

\* the longest vector the demonstration program is run with
MaxDemoLen == 3

\* iterations of the loop of func::operator() (10000 in the source)
MaxWorkerIter == 4
\* iterations of the loop of do_something_in_current_thread (5000 in the source)
MaxMainIter == 4

\* calls of lock(), try_lock() and unlock() of hierarchical_mutex in one
\* behaviour
MaxRankCalls == 5


\* threads calling foo()
NWrapThreads == 3


\* threads calling process_data() of the unique_lock example
NLockThreads == 3


\* steps a started thread runs before its function returns
MaxWorkSteps == 2


Threads == 1..NThreads
Values == 1..MaxVal
\* "no thread" as a mutex owner, "no value" as a result
NoThread == 0
NoVal == 0

(***************************************************************************)
(* Coarse-grained threadsafe_queue<T>, shared_ptr version.                 *)
(*   mut        : owner of std::mutex mut (NoThread when free)             *)
(*   data_queue : std::queue<std::shared_ptr<T>>, front first              *)
(*   data_cond  : the threads suspended in data_cond.wait                  *)
(*   cq_pc      : each thread's position inside a member function          *)
(*   cq_arg     : push: the cell allocated from new_value                  *)
(*   cq_ovl     : pop operations: the overload being executed, "ref"       *)
(*                (T& value) or "ptr" (shared_ptr result); "none" outside  *)
(*   cq_res     : the value obtained by the pop being executed, NoVal when *)
(*                nothing is obtained (false / empty handle)               *)
(*   cq_ub      : front()/pop() was executed on an empty std::queue        *)
(*   cq_pushed  : history: the values appended, in the order of the appends *)
(*   cq_popped  : history: the values removed, in the order of the removals *)
(*   cq_callers : history: the threads that have called a member function  *)
(***************************************************************************)
VARIABLES mut, data_queue, data_cond, cq_pc, cq_arg, cq_ovl, cq_res, cq_ub,
          cq_pushed, cq_popped, cq_callers

cqVars == <<mut, data_queue, data_cond, cq_pc, cq_arg, cq_ovl, cq_res, cq_ub,
            cq_pushed, cq_popped, cq_callers>>

(***************************************************************************)
(* Fine-grained threadsafe_queue<T>: a singly linked chain of nodes ending *)
(* in a dummy node, head_mutex for head, tail_mutex for tail.              *)
(*   fq_nodes   : the nodes allocated and not yet destroyed                *)
(*   fq_data    : node -> its data (NoVal: empty shared_ptr)               *)
(*   fq_next    : node -> its next node (NoNode: null)                     *)
(*   head, tail : the queue's head and tail pointers                       *)
(*   head_mutex, tail_mutex : owner of each mutex (NoThread when free)     *)
(*   fq_pc      : each thread's position inside push / try_pop             *)
(*   fq_new_data, fq_p : push: the data cell and the new node (p, new_tail)*)
(*   fq_tl      : pop_head: the value returned by get_tail()               *)
(*   fq_old_head: try_pop: the node returned by pop_head() (NoNode: null)  *)
(*   fq_pushed  : history: the values stored by push, in order             *)
(*   fq_popped  : history: the values returned by try_pop, in return order *)
(*   fq_callers : history: the threads that have called push or try_pop    *)
(***************************************************************************)
VARIABLES fq_nodes, fq_data, fq_next, head, tail, head_mutex, tail_mutex,
          fq_pc, fq_new_data, fq_p, fq_tl, fq_old_head,
          fq_pushed, fq_popped, fq_callers

fqVars == <<fq_nodes, fq_data, fq_next, head, tail, head_mutex, tail_mutex,
            fq_pc, fq_new_data, fq_p, fq_tl, fq_old_head,
            fq_pushed, fq_popped, fq_callers>>

(***************************************************************************)
(* threadsafe_list<T>: a head sentinel node and a chain of data nodes,     *)
(* every node with its own mutex.                                          *)
(*   l_nodes   : the nodes allocated and not yet destroyed                 *)
(*   l_m       : node -> owner of its mutex m (NoThread when free)         *)
(*   l_data    : node -> *data (NoVal: no data, the head sentinel)         *)
(*   l_next    : node -> its next node (NoNode: null)                      *)
(*   l_pc      : each thread's position inside a member function           *)
(*   l_op      : the member function a thread executes                     *)
(*   l_pred    : the values the predicate p of find_first_if / remove_if   *)
(*               holds for                                                 *)
(*   l_new     : push_front: new_node                                      *)
(*   l_cur, l_nxt : the locals current and next of a traversal             *)
(*   l_lk, l_next_lk : the node whose mutex the unique_lock lk / next_lk   *)
(*               owns (NoNode: it owns none)                               *)
(*   l_res     : find_first_if: the data returned (NoVal: empty handle)    *)
(*   l_visited : for_each: the nodes f has been applied to the data of, in  *)
(*               order                                                     *)
(*   l_before  : history: the values in the list when the call began       *)
(*   l_pushed  : history: the values inserted by push_front, in order      *)
(*   l_removed : history: the number of nodes unlinked by remove_if        *)
(*   l_dtor    : the destructor of the list has been called                *)
(***************************************************************************)
VARIABLES l_nodes, l_m, l_data, l_next, l_pc, l_op, l_pred, l_new, l_cur,
          l_nxt, l_lk, l_next_lk, l_res, l_visited, l_before, l_pushed,
          l_removed, l_dtor

listVars == <<l_nodes, l_m, l_data, l_next, l_pc, l_op, l_pred, l_new, l_cur,
              l_nxt, l_lk, l_next_lk, l_res, l_visited, l_before, l_pushed,
              l_removed, l_dtor>>

(***************************************************************************)
(* threadsafe_stack<T> (chapter-3.cpp): a std::stack behind one mutex.     *)
(* The top of the stack is the last element of s_data.                     *)
(*                                                                         *)
(*   s_data   : data                                                       *)
(*   s_m      : the thread owning m, or NoThread                           *)
(*   s_pc     : the position of each thread inside its call                *)
(*   s_ovl    : the pop overload called: "ptr" returns a shared_ptr,       *)
(*              "ref" assigns to popped_val                                *)
(*   s_arg    : the value passed to push                                   *)
(*   s_res    : the value the pop has copied out, or NoVal                 *)
(*   s_exc    : the exception in flight in the call, or "none"             *)
(*   s_out    : how the thread's previous call ended                       *)
(*   s_before : history: data when the call took the mutex                 *)
(*   s_pushed : history: the values pushed, in order                       *)
(*   s_popped : history: the values popped, in order                       *)
(*   s_mixed  : history: a value was pushed after a pop had succeeded      *)
(***************************************************************************)
VARIABLES s_data, s_m, s_pc, s_ovl, s_arg, s_res, s_exc, s_out, s_before,
          s_pushed, s_popped, s_mixed

stackVars == <<s_data, s_m, s_pc, s_ovl, s_arg, s_res, s_exc, s_out, s_before,
               s_pushed, s_popped, s_mixed>>

(***************************************************************************)
(* class X (unnamed/part_000): two instances, "a" and "b".                 *)
(*   x_detail : instance -> its some_detail                                *)
(*   x_m      : instance -> the thread owning its m, or NoThread           *)
(*   x_pc     : the position of each thread inside swap                    *)
(*   x_lhs, x_rhs : the arguments of the call a thread executes            *)
(*   x_done   : history: the calls on two different instances that have    *)
(*              returned                                                   *)
(*   x_exch   : history: the exchanges of some_detail executed             *)
(***************************************************************************)
VARIABLES x_detail, x_m, x_pc, x_lhs, x_rhs, x_done, x_exch

swapVars == <<x_detail, x_m, x_pc, x_lhs, x_rhs, x_done, x_exch>>

Objs == {"a", "b"}
NoObj == "none"
\* the values the two instances are constructed with
OrigDetail == [o \in Objs |-> IF o = "a" THEN "sd_a" ELSE "sd_b"]

(***************************************************************************)
(* hierarchical_mutex (unnamed/part_000) and the functions thread_a and    *)
(* thread_b that lock high_level_mutex, low_level_mutex and other_mutex.   *)
(*   h_owner  : mutex -> the thread owning its internal_mutex, or NoThread *)
(*   h_prev   : mutex -> its previous_hierarchy_value                      *)
(*   h_this   : thread -> its this_thread_hierarchy_value                  *)
(*   h_prog   : the function a thread runs, "none" outside                 *)
(*   h_ip     : the statement of that function the thread is at            *)
(*   h_pc     : the step of that statement the thread is at                *)
(*   h_guards : the mutexes of the thread's live lock_guards, oldest first *)
(*   h_exc    : the mutex whose lock() threw the logic_error in flight,    *)
(*              "none" when no exception is in flight                      *)
(*   h_out    : how the thread's previous function ended: the function and *)
(*              "completed" or "logic_error"                               *)
(***************************************************************************)
VARIABLES h_owner, h_prev, h_this, h_prog, h_ip, h_pc, h_guards, h_exc, h_out

hierVars == <<h_owner, h_prev, h_this, h_prog, h_ip, h_pc, h_guards, h_exc,
              h_out>>

(***************************************************************************)
(* The demonstration program of chapter-6.cpp (lines 636-794): main builds *)
(* a list from the vector a with getHead and folds it with reduce_list.    *)
(*   d_a      : the vector a                                               *)
(*   d_pc     : the position of the program                                *)
(*   d_i      : the position of the iterator i in a                        *)
(*   d_nodes  : the nodes allocated so far, without the head               *)
(*   d_data   : node -> its data (NoVal: the head's null pointer)          *)
(*   d_next   : node -> its next node (NoNode: null)                       *)
(*   d_locked : the nodes whose mutex is locked                            *)
(*   d_head   : main: head (NoNode before getHead has returned)            *)
(*   d_cur, d_nxt : reduce_list: current and next                          *)
(*   d_lk, d_next_lk : reduce_list: the node whose mutex lk / next_lk owns *)
(*   d_sum    : reduce_list: sum                                           *)
(*   d_ret    : main: sum, the value reduce_list returned                  *)
(*   d_out    : what has been written to std::cout: <<"head", 0>> is the   *)
(*              line HEAD IS AVAILABLE, <<"total", n>> a line with the     *)
(*              running total n, <<"value", n>> the value n and a space,   *)
(*              <<"sum", n>> the text SUM: n and the end of the line       *)
(***************************************************************************)
VARIABLES d_a, d_pc, d_i, d_nodes, d_data, d_next, d_locked, d_head, d_cur,
          d_nxt, d_lk, d_next_lk, d_sum, d_ret, d_out

demoVars == <<d_a, d_pc, d_i, d_nodes, d_data, d_next, d_locked, d_head, d_cur,
              d_nxt, d_lk, d_next_lk, d_sum, d_ret, d_out>>

(***************************************************************************)
(* thread_guard and f() (unnamed/part_000, lines 9-66).                    *)
(*   g_pc       : the position of the thread running f()                   *)
(*   g_i        : the iterations of do_something_in_current_thread done    *)
(*   g_exc      : an exception thrown by the body of f() is in flight      *)
(*   g_worker   : the thread of t: "none", "running" or "finished"         *)
(*   g_j        : the iterations of func::operator() done                  *)
(*   g_joinable : t.joinable()                                             *)
(*   g_joins    : history: the number of calls of t.join() that returned   *)
(*   g_out      : how f() ended: "returned", "raised", or "terminated"     *)
(*                when the destructor of a joinable std::thread ran        *)
(***************************************************************************)
VARIABLES g_pc, g_i, g_exc, g_worker, g_j, g_joinable, g_joins, g_out

guardVars == <<g_pc, g_i, g_exc, g_worker, g_j, g_joinable, g_joins, g_out>>

(***************************************************************************)
(* The Makefile and the files it reads and writes.                         *)
(*   m_files    : the source files and executables that exist              *)
(*   m_buildbin : the path build/bin: "absent", a "file" or a "dir"        *)
(*   m_last     : the goal of the last run of make and its exit status     *)
(*   m_prev     : the same for the run of make before that one             *)
(***************************************************************************)
VARIABLES m_files, m_buildbin, m_last, m_prev

makeVars == <<m_files, m_buildbin, m_last, m_prev>>

(***************************************************************************)
(* class X, second version (unnamed/part_000, lines 303-326): swap with    *)
(* two std::unique_lock constructed with std::defer_lock and               *)
(* std::lock(lock_a, lock_b).  The same two instances.                     *)
(*   y_detail : instance -> its some_detail                                *)
(*   y_m      : instance -> the thread owning its m, or NoThread           *)
(*   y_pc     : the position of each thread inside swap                    *)
(*   y_lhs, y_rhs : the arguments of the call a thread executes            *)
(*   y_owns   : thread -> the instances whose mutex lock_a or lock_b of    *)
(*              the thread owns (the flag of the unique_lock)              *)
(***************************************************************************)
VARIABLES y_detail, y_m, y_pc, y_lhs, y_rhs, y_owns

swap2Vars == <<y_detail, y_m, y_pc, y_lhs, y_rhs, y_owns>>

(***************************************************************************)
(* hierarchical_mutex called directly: lock(), try_lock() and unlock() in  *)
(* any sequence a thread may issue, on the three mutexes of the source.    *)
(*   k_owner : mutex -> the thread owning its internal_mutex, or NoThread  *)
(*   k_prev  : mutex -> its previous_hierarchy_value                       *)
(*   k_this  : thread -> its this_thread_hierarchy_value                   *)
(*   k_pc    : thread -> the step of the member function it is in          *)
(*   k_m     : thread -> the mutex that member function was called on      *)
(*   k_held  : history: the mutexes the thread has acquired and not yet    *)
(*             unlocked, in the order of acquisition                       *)
(*   k_out   : thread -> how its previous call ended                       *)
(*   k_calls : history: the calls begun so far                             *)
(***************************************************************************)
VARIABLES k_owner, k_prev, k_this, k_pc, k_m, k_held, k_out, k_calls

rankVars == <<k_owner, k_prev, k_this, k_pc, k_m, k_held, k_out, k_calls>>

(***************************************************************************)
(* data_wrapper x, malicious_function and foo(), run by several threads.   *)
(*   w_m           : the thread owning x.m, or NoThread                    *)
(*   w_unprotected : what the global pointer unprotected refers to:        *)
(*                   "null" or "x.data"                                    *)
(*   w_pc          : thread -> the statement of foo() it is at             *)
(***************************************************************************)
VARIABLES w_m, w_unprotected, w_pc

wrapVars == <<w_m, w_unprotected, w_pc>>

(***************************************************************************)
(* get_lock() and process_data(): a unique_lock on some_mutex returned     *)
(* from a function.                                                        *)
(*   u_mutex    : the thread owning some_mutex, or NoThread                *)
(*   u_pc       : thread -> the statement of process_data / get_lock it is *)
(*                at                                                       *)
(*   u_live     : thread -> its live unique_lock objects                   *)
(*   u_owns     : thread -> unique_lock object -> its owns flag            *)
(*   u_released : history: thread -> the unlocks of some_mutex in its      *)
(*                current or last call of process_data                     *)
(*   u_out      : thread -> "done" once a call of process_data returned    *)
(***************************************************************************)
VARIABLES u_mutex, u_pc, u_live, u_owns, u_released, u_out

ulockVars == <<u_mutex, u_pc, u_live, u_owns, u_released, u_out>>

(***************************************************************************)
(* The functions of the run-in-background and ownership-transfer demos     *)
(* that start threads, and scoped_thread. One function is run by the       *)
(* calling thread; the threads it starts run beside it.                    *)
(*   t_prog  : the function being run, "none" before                       *)
(*   t_pc    : "none", "run" (in the statements), "exit" (the scope ends), *)
(*             "unwind" (an exception leaves the scope), "done"            *)
(*   t_ip    : the statement of the function the calling thread is at      *)
(*   t_live  : the live std::thread and scoped_thread objects of the       *)
(*             function, in the order of construction                      *)
(*   t_own   : std::thread object -> the thread it owns, 0 if not joinable *)
(*   t_thr   : thread -> "none", "joinable", "joined" or "detached"        *)
(*   t_work  : thread -> the steps of its function it has run              *)
(*   t_n     : the threads started so far                                  *)
(*   t_joins : history: thread -> the join() calls that returned for it    *)
(*   t_exc   : the exception in flight, "none" if none                     *)
(*   t_out   : how the function ended: "returned", the exception that left *)
(*             it, or "terminate" for std::terminate()                     *)
(***************************************************************************)
VARIABLES t_prog, t_pc, t_ip, t_live, t_own, t_thr, t_work, t_n, t_joins,
          t_exc, t_out

thrVars == <<t_prog, t_pc, t_ip, t_live, t_own, t_thr, t_work, t_n, t_joins,
             t_exc, t_out>>

vars == <<cqVars, fqVars, listVars, stackVars, swapVars, hierVars, demoVars, guardVars, makeVars, swap2Vars, rankVars, wrapVars, ulockVars, thrVars>>

Overloads == {"ref", "ptr"}

InitCQ ==
    /\ mut = NoThread
    /\ data_queue = <<>>
    /\ data_cond = {}
    /\ cq_pc = [t \in Threads |-> "idle"]
    /\ cq_arg = [t \in Threads |-> NoVal]
    /\ cq_ovl = [t \in Threads |-> "none"]
    /\ cq_res = [t \in Threads |-> NoVal]
    /\ cq_ub = FALSE
    /\ cq_pushed = <<>>
    /\ cq_popped = <<>>
    /\ cq_callers = {}

\* std::lock_guard / std::unique_lock constructor: blocks until mut is free
CqLock(t, from, to) ==
    /\ cq_pc[t] = from
    /\ mut = NoThread
    /\ mut' = t
    /\ cq_pc' = [cq_pc EXCEPT ![t] = to]
    /\ UNCHANGED <<data_queue, data_cond, cq_arg, cq_ovl, cq_res, cq_ub,
                   cq_pushed, cq_popped, cq_callers>>

\* destructor of the guard at the end of the member function, and the return:
\* the function's locals are gone
CqUnlock(t, from) ==
    /\ cq_pc[t] = from
    /\ mut' = (IF mut = t THEN NoThread ELSE mut)
    /\ cq_pc' = [cq_pc EXCEPT ![t] = "idle"]
    /\ cq_arg' = [cq_arg EXCEPT ![t] = NoVal]
    /\ cq_ovl' = [cq_ovl EXCEPT ![t] = "none"]
    /\ cq_res' = [cq_res EXCEPT ![t] = NoVal]
    /\ UNCHANGED <<data_queue, data_cond, cq_ub, cq_pushed, cq_popped, cq_callers>>

\* front() and pop() of the std::queue; on an empty queue both are undefined
CqTake(t, from, to) ==
    /\ cq_pc[t] = from
    /\ IF data_queue # <<>>
       THEN /\ cq_res' = [cq_res EXCEPT ![t] = Head(data_queue)]
            /\ data_queue' = Tail(data_queue)
            /\ cq_popped' = Append(cq_popped, Head(data_queue))
            /\ UNCHANGED cq_ub
       ELSE /\ \E v \in Values \cup {NoVal} : cq_res' = [cq_res EXCEPT ![t] = v]
            /\ cq_ub' = TRUE
            /\ UNCHANGED <<data_queue, cq_popped>>
    /\ cq_pc' = [cq_pc EXCEPT ![t] = to]
    /\ UNCHANGED <<mut, data_cond, cq_arg, cq_ovl, cq_pushed, cq_callers>>

\* mutant of CqEnter: the member function goes on without mut
CqEnterNoMutex(t, to, o) ==
    /\ cq_pc[t] = "idle"
    /\ cq_pc' = [cq_pc EXCEPT ![t] = to]
    /\ cq_ovl' = [cq_ovl EXCEPT ![t] = o]
    /\ cq_callers' = cq_callers \cup {t}
    /\ UNCHANGED <<mut, data_queue, data_cond, cq_arg, cq_res, cq_ub, cq_pushed,
                   cq_popped>>

\* a call of a member function whose first statement constructs the guard:
\* the call takes effect when mut is acquired
CqEnter(t, to, o) ==
    /\ cq_pc[t] = "idle"
    /\ mut = NoThread
    /\ mut' = t
    /\ cq_pc' = [cq_pc EXCEPT ![t] = to]
    /\ cq_ovl' = [cq_ovl EXCEPT ![t] = o]
    /\ cq_callers' = cq_callers \cup {t}
    /\ UNCHANGED <<data_queue, data_cond, cq_arg, cq_res, cq_ub, cq_pushed,
                   cq_popped>>

---------------------------------------------------------------------------
\* push(T new_value)

\* the push calls begun so far
PushCalls ==
    Len(cq_pushed)
    + Cardinality({u \in Threads : cq_pc[u] \in {"push_lock", "push_append"}})

\* std::make_shared<T>(std::move(new_value)), before the lock is taken
CallPush(t, v) ==
    /\ PushCalls < MaxPush
    /\ cq_pc[t] = "idle"
    /\ cq_pc' = [cq_pc EXCEPT ![t] = "push_lock"]
    /\ cq_arg' = [cq_arg EXCEPT ![t] = v]
    /\ cq_callers' = cq_callers \cup {t}
    /\ UNCHANGED <<mut, data_queue, data_cond, cq_ovl, cq_res, cq_ub, cq_pushed,
                   cq_popped>>

\* mutant of PushLock: push goes on to append without locking mut
PushLockNoMutex(t) ==
    /\ cq_pc[t] = "push_lock"
    /\ cq_pc' = [cq_pc EXCEPT ![t] = "push_append"]
    /\ UNCHANGED <<mut, data_queue, data_cond, cq_arg, cq_ovl, cq_res, cq_ub,
                   cq_pushed, cq_popped, cq_callers>>

\* std::lock_guard<std::mutex> lk(mut)
PushLock(t) == CqLock(t, "push_lock", "push_append")

\* mutant of PushAppend: the new cell is inserted at the front
PushAppendFront(t) ==
    /\ cq_pc[t] = "push_append"
    /\ data_queue' = <<cq_arg[t]>> \o data_queue
    /\ cq_pushed' = Append(cq_pushed, cq_arg[t])
    /\ cq_pc' = [cq_pc EXCEPT ![t] = "push_notify"]
    /\ UNCHANGED <<mut, data_cond, cq_arg, cq_ovl, cq_res, cq_ub, cq_popped,
                   cq_callers>>

\* data_queue.push(data)
PushAppend(t) ==
    /\ cq_pc[t] = "push_append"
    /\ data_queue' = Append(data_queue, cq_arg[t])
    /\ cq_pushed' = Append(cq_pushed, cq_arg[t])
    /\ cq_pc' = [cq_pc EXCEPT ![t] = "push_notify"]
    /\ UNCHANGED <<mut, data_cond, cq_arg, cq_ovl, cq_res, cq_ub, cq_popped,
                   cq_callers>>

\* mutant of NotifyOne: push wakes nobody
NotifyNobody(t) ==
    /\ cq_pc[t] = "push_notify"
    /\ cq_pc' = [cq_pc EXCEPT ![t] = "push_unlock"]
    /\ UNCHANGED <<mut, data_queue, data_cond, cq_arg, cq_ovl, cq_res, cq_ub,
                   cq_pushed, cq_popped, cq_callers>>

\* data_cond.notify_one(): wakes one suspended thread, if there is one
NotifyOne(t) ==
    /\ cq_pc[t] = "push_notify"
    /\ IF data_cond = {}
       THEN /\ cq_pc' = [cq_pc EXCEPT ![t] = "push_unlock"]
            /\ UNCHANGED data_cond
       ELSE \E w \in data_cond :
            /\ data_cond' = data_cond \ {w}
            /\ cq_pc' = [cq_pc EXCEPT ![t] = "push_unlock", ![w] = "wp_relock"]
    /\ UNCHANGED <<mut, data_queue, cq_arg, cq_ovl, cq_res, cq_ub,
                   cq_pushed, cq_popped, cq_callers>>

PushNotify(t) == NotifyOne(t)

PushUnlock(t) == CqUnlock(t, "push_unlock")

---------------------------------------------------------------------------
\* wait_and_pop(T& value) and std::shared_ptr<T> wait_and_pop()

\* std::unique_lock<std::mutex> lk(mut)
WpLock(t, o) == CqEnter(t, "wp_check", o)

\* data_cond.wait(lk, pred): with mut held, evaluate the predicate; when it is
\* false release mut and suspend, atomically
WpCheck(t) ==
    /\ cq_pc[t] = "wp_check"
    /\ IF data_queue # <<>>
       THEN /\ cq_pc' = [cq_pc EXCEPT ![t] = "wp_take"]
            /\ UNCHANGED <<mut, data_cond>>
       ELSE /\ cq_pc' = [cq_pc EXCEPT ![t] = "wp_wait"]
            /\ mut' = NoThread
            /\ data_cond' = data_cond \cup {t}
    /\ UNCHANGED <<data_queue, cq_arg, cq_ovl, cq_res, cq_ub,
                   cq_pushed, cq_popped, cq_callers>>

\* a condition variable may wake a waiter without any notification
SpuriousWake(t) ==
    /\ cq_pc[t] = "wp_wait"
    /\ t \in data_cond
    /\ data_cond' = data_cond \ {t}
    /\ cq_pc' = [cq_pc EXCEPT ![t] = "wp_relock"]
    /\ UNCHANGED <<mut, data_queue, cq_arg, cq_ovl, cq_res, cq_ub,
                   cq_pushed, cq_popped, cq_callers>>

\* mutant of AfterWake: the predicate is not evaluated again after a wake-up
AfterWakeNoRecheck == "wp_take"

\* where a woken thread continues once it holds mut again: wait(lk, pred) is
\* while(!pred()) wait(lk), so the predicate is evaluated again
AfterWake == "wp_check"

\* the woken thread re-acquires mut inside wait
WpRelock(t) == CqLock(t, "wp_relock", AfterWake)

\* value=std::move(*data_queue.front()) / res=data_queue.front(); data_queue.pop()
WpTake(t) == CqTake(t, "wp_take", "wp_unlock")

WpUnlock(t) == CqUnlock(t, "wp_unlock")

---------------------------------------------------------------------------
\* bool try_pop(T& value) and std::shared_ptr<T> try_pop()

\* std::lock_guard<std::mutex> lk(mut)
TpLock(t, o) == CqEnter(t, "tp_check", o)

\* mutant of TpCheck: the queue is not tested
TpCheckNoTest(t) ==
    /\ cq_pc[t] = "tp_check"
    /\ cq_pc' = [cq_pc EXCEPT ![t] = "tp_take"]
    /\ UNCHANGED <<mut, data_queue, data_cond, cq_arg, cq_ovl, cq_res, cq_ub,
                   cq_pushed, cq_popped, cq_callers>>

\* if(data_queue.empty()) return false / return std::shared_ptr<T>()
TpCheck(t) ==
    /\ cq_pc[t] = "tp_check"
    /\ cq_pc' = [cq_pc EXCEPT ![t] =
                    IF data_queue = <<>> THEN "tp_unlock" ELSE "tp_take"]
    /\ UNCHANGED <<mut, data_queue, data_cond, cq_arg, cq_ovl, cq_res, cq_ub,
                   cq_pushed, cq_popped, cq_callers>>

TpTake(t) == CqTake(t, "tp_take", "tp_unlock")

TpUnlock(t) == CqUnlock(t, "tp_unlock")

---------------------------------------------------------------------------
\* bool empty() const

\* std::lock_guard<std::mutex> lk(mut)
EmLock(t) == CqEnter(t, "em_unlock", "none")

\* return data_queue.empty(); the guard is released on return
EmUnlock(t) == CqUnlock(t, "em_unlock")

---------------------------------------------------------------------------
StepCQ ==
    \E t \in Threads :
        \/ \E v \in Values : CallPush(t, v)
        \/ PushLock(t)
        \/ PushAppend(t)
        \/ PushNotify(t)
        \/ PushUnlock(t)
        \/ \E o \in Overloads : WpLock(t, o)
        \/ WpCheck(t)
        \/ SpuriousWake(t)
        \/ WpRelock(t)
        \/ WpTake(t)
        \/ WpUnlock(t)
        \/ \E o \in Overloads : TpLock(t, o)
        \/ TpCheck(t)
        \/ TpTake(t)
        \/ TpUnlock(t)
        \/ EmLock(t)
        \/ EmUnlock(t)

NextCQ == StepCQ /\ UNCHANGED <<fqVars, listVars, stackVars, swapVars, hierVars, demoVars, guardVars, makeVars, swap2Vars, rankVars, wrapVars, ulockVars, thrVars>>

(***************************************************************************)
(* The fine-grained queue.                                                 *)
(***************************************************************************)
FqThreads == 1..NFqThreads
\* one node per push and the first dummy node
FqNodeIds == 1..(MaxFqPush + 1)
\* the null node pointer
NoNode == 0

\* new node: an address that holds no live node
FqFresh == CHOOSE n \in FqNodeIds : n \notin fq_nodes /\
              \A m \in FqNodeIds : m \notin fq_nodes => n <= m

\* threadsafe_queue(): head(new node), tail(head.get())
InitFQ ==
    /\ fq_nodes = {1}
    /\ fq_data = [n \in FqNodeIds |-> NoVal]
    /\ fq_next = [n \in FqNodeIds |-> NoNode]
    /\ head = 1
    /\ tail = 1
    /\ head_mutex = NoThread
    /\ tail_mutex = NoThread
    /\ fq_pc = [t \in FqThreads |-> "idle"]
    /\ fq_new_data = [t \in FqThreads |-> NoVal]
    /\ fq_p = [t \in FqThreads |-> NoNode]
    /\ fq_tl = [t \in FqThreads |-> NoNode]
    /\ fq_old_head = [t \in FqThreads |-> NoNode]
    /\ fq_pushed = <<>>
    /\ fq_popped = <<>>
    /\ fq_callers = {}

\* the push calls begun so far
FqPushCalls ==
    Len(fq_pushed)
    + Cardinality({u \in FqThreads : fq_pc[u] \in {"push_lock", "push_data"}})

\* push: make_shared<T>(new_value); p(new node); new_tail=p.get(); no lock held
FqCallPush(t, v) ==
    /\ fq_pc[t] = "idle"
    /\ FqPushCalls < MaxFqPush
    /\ fq_nodes # FqNodeIds
    /\ fq_new_data' = [fq_new_data EXCEPT ![t] = v]
    /\ fq_p' = [fq_p EXCEPT ![t] = FqFresh]
    /\ fq_nodes' = fq_nodes \cup {FqFresh}
    /\ fq_data' = [fq_data EXCEPT ![FqFresh] = NoVal]
    /\ fq_next' = [fq_next EXCEPT ![FqFresh] = NoNode]
    /\ fq_pc' = [fq_pc EXCEPT ![t] = "push_lock"]
    /\ fq_callers' = fq_callers \cup {t}
    /\ UNCHANGED <<head, tail, head_mutex, tail_mutex, fq_tl, fq_old_head,
                   fq_pushed, fq_popped>>

\* push: std::lock_guard<std::mutex> tail_lock(tail_mutex)
FqPushLock(t) ==
    /\ fq_pc[t] = "push_lock"
    /\ tail_mutex = NoThread
    /\ tail_mutex' = t
    /\ fq_pc' = [fq_pc EXCEPT ![t] = "push_data"]
    /\ UNCHANGED <<fq_nodes, fq_data, fq_next, head, tail, head_mutex,
                   fq_new_data, fq_p, fq_tl, fq_old_head, fq_pushed, fq_popped,
                   fq_callers>>

\* mutant of FqPushData: the data is stored in the new node
FqPushDataNewNode(t) ==
    /\ fq_pc[t] = "push_data"
    /\ fq_data' = [fq_data EXCEPT ![fq_p[t]] = fq_new_data[t]]
    /\ fq_pushed' = Append(fq_pushed, fq_new_data[t])
    /\ fq_pc' = [fq_pc EXCEPT ![t] = "push_next"]
    /\ UNCHANGED <<fq_nodes, fq_next, head, tail, head_mutex, tail_mutex,
                   fq_new_data, fq_p, fq_tl, fq_old_head, fq_popped, fq_callers>>

\* push: tail->data=new_data
FqPushData(t) ==
    /\ fq_pc[t] = "push_data"
    /\ fq_data' = [fq_data EXCEPT ![tail] = fq_new_data[t]]
    /\ fq_pushed' = Append(fq_pushed, fq_new_data[t])
    /\ fq_pc' = [fq_pc EXCEPT ![t] = "push_next"]
    /\ UNCHANGED <<fq_nodes, fq_next, head, tail, head_mutex, tail_mutex,
                   fq_new_data, fq_p, fq_tl, fq_old_head, fq_popped, fq_callers>>

\* push: tail->next=std::move(p)
FqPushNext(t) ==
    /\ fq_pc[t] = "push_next"
    /\ fq_next' = [fq_next EXCEPT ![tail] = fq_p[t]]
    /\ fq_pc' = [fq_pc EXCEPT ![t] = "push_tail"]
    /\ UNCHANGED <<fq_nodes, fq_data, head, tail, head_mutex, tail_mutex,
                   fq_new_data, fq_p, fq_tl, fq_old_head, fq_pushed, fq_popped,
                   fq_callers>>

\* mutant of FqPushTail: tail is not advanced to the new dummy node
FqPushTailStays(t) ==
    /\ fq_pc[t] = "push_tail"
    /\ fq_pc' = [fq_pc EXCEPT ![t] = "push_unlock"]
    /\ UNCHANGED <<fq_nodes, fq_data, fq_next, head, tail, head_mutex,
                   tail_mutex, fq_new_data, fq_p, fq_tl, fq_old_head, fq_pushed,
                   fq_popped, fq_callers>>

\* push: tail=new_tail
FqPushTail(t) ==
    /\ fq_pc[t] = "push_tail"
    /\ tail' = fq_p[t]
    /\ fq_pc' = [fq_pc EXCEPT ![t] = "push_unlock"]
    /\ UNCHANGED <<fq_nodes, fq_data, fq_next, head, head_mutex, tail_mutex,
                   fq_new_data, fq_p, fq_tl, fq_old_head, fq_pushed, fq_popped,
                   fq_callers>>

\* mutant of FqPushUnlock: tail_lock is not released
FqPushUnlockKeepsLock(t) ==
    /\ fq_pc[t] = "push_unlock"
    /\ fq_new_data' = [fq_new_data EXCEPT ![t] = NoVal]
    /\ fq_p' = [fq_p EXCEPT ![t] = NoNode]
    /\ fq_pc' = [fq_pc EXCEPT ![t] = "idle"]
    /\ UNCHANGED <<fq_nodes, fq_data, fq_next, head, tail, head_mutex,
                   tail_mutex, fq_tl, fq_old_head, fq_pushed, fq_popped,
                   fq_callers>>

\* push: the end of the function releases tail_lock; p and new_data are gone
FqPushUnlock(t) ==
    /\ fq_pc[t] = "push_unlock"
    /\ tail_mutex' = (IF tail_mutex = t THEN NoThread ELSE tail_mutex)
    /\ fq_new_data' = [fq_new_data EXCEPT ![t] = NoVal]
    /\ fq_p' = [fq_p EXCEPT ![t] = NoNode]
    /\ fq_pc' = [fq_pc EXCEPT ![t] = "idle"]
    /\ UNCHANGED <<fq_nodes, fq_data, fq_next, head, tail, head_mutex, fq_tl,
                   fq_old_head, fq_pushed, fq_popped, fq_callers>>

\* try_pop -> pop_head: std::lock_guard<std::mutex> head_lock(head_mutex)
FqPopLock(t) ==
    /\ fq_pc[t] = "idle"
    /\ head_mutex = NoThread
    /\ head_mutex' = t
    /\ fq_pc' = [fq_pc EXCEPT ![t] = "get_tail_lock"]
    /\ fq_callers' = fq_callers \cup {t}
    /\ UNCHANGED <<fq_nodes, fq_data, fq_next, head, tail, tail_mutex,
                   fq_new_data, fq_p, fq_tl, fq_old_head, fq_pushed, fq_popped>>

\* get_tail: std::lock_guard<std::mutex> tail_lock(tail_mutex)
FqGetTailLock(t) ==
    /\ fq_pc[t] = "get_tail_lock"
    /\ tail_mutex = NoThread
    /\ tail_mutex' = t
    /\ fq_pc' = [fq_pc EXCEPT ![t] = "get_tail"]
    /\ UNCHANGED <<fq_nodes, fq_data, fq_next, head, tail, head_mutex,
                   fq_new_data, fq_p, fq_tl, fq_old_head, fq_pushed, fq_popped,
                   fq_callers>>

\* mutant of FqGetTail: tail_lock is not released
FqGetTailKeepsLock(t) ==
    /\ fq_pc[t] = "get_tail"
    /\ fq_tl' = [fq_tl EXCEPT ![t] = tail]
    /\ fq_pc' = [fq_pc EXCEPT ![t] = "pop_compare"]
    /\ UNCHANGED <<fq_nodes, fq_data, fq_next, head, tail, head_mutex,
                   tail_mutex, fq_new_data, fq_p, fq_old_head, fq_pushed,
                   fq_popped, fq_callers>>

\* get_tail: return tail; tail_lock is released
FqGetTail(t) ==
    /\ fq_pc[t] = "get_tail"
    /\ fq_tl' = [fq_tl EXCEPT ![t] = tail]
    /\ tail_mutex' = (IF tail_mutex = t THEN NoThread ELSE tail_mutex)
    /\ fq_pc' = [fq_pc EXCEPT ![t] = "pop_compare"]
    /\ UNCHANGED <<fq_nodes, fq_data, fq_next, head, tail, head_mutex,
                   fq_new_data, fq_p, fq_old_head, fq_pushed, fq_popped,
                   fq_callers>>

\* mutant of FqPopHead: head is not compared with the tail
FqPopHeadNoCompare(t) ==
    /\ fq_pc[t] = "pop_compare"
    /\ fq_old_head' = [fq_old_head EXCEPT ![t] = head]
    /\ head' = fq_next[head]
    /\ fq_pc' = [fq_pc EXCEPT ![t] = "pop_unlock"]
    /\ UNCHANGED <<fq_nodes, fq_data, fq_next, tail, head_mutex, tail_mutex,
                   fq_new_data, fq_p, fq_tl, fq_pushed, fq_popped, fq_callers>>

\* pop_head: if(head.get()==get_tail()) return nullptr;
\*           old_head=std::move(head); head=std::move(old_head->next)
FqPopHead(t) ==
    /\ fq_pc[t] = "pop_compare"
    /\ IF head = fq_tl[t]
       THEN /\ fq_old_head' = [fq_old_head EXCEPT ![t] = NoNode]
            /\ UNCHANGED head
       ELSE /\ fq_old_head' = [fq_old_head EXCEPT ![t] = head]
            /\ head' = fq_next[head]
    /\ fq_pc' = [fq_pc EXCEPT ![t] = "pop_unlock"]
    /\ UNCHANGED <<fq_nodes, fq_data, fq_next, tail, head_mutex, tail_mutex,
                   fq_new_data, fq_p, fq_tl, fq_pushed, fq_popped, fq_callers>>

\* pop_head: return old_head; head_lock is released
FqPopUnlock(t) ==
    /\ fq_pc[t] = "pop_unlock"
    /\ head_mutex' = (IF head_mutex = t THEN NoThread ELSE head_mutex)
    /\ fq_tl' = [fq_tl EXCEPT ![t] = NoNode]
    /\ fq_pc' = [fq_pc EXCEPT ![t] = "pop_return"]
    /\ UNCHANGED <<fq_nodes, fq_data, fq_next, head, tail, tail_mutex,
                   fq_new_data, fq_p, fq_old_head, fq_pushed, fq_popped,
                   fq_callers>>

\* mutant of FqResult: the data of the new head is returned
FqResultOfHead(t) ==
    IF fq_old_head[t] = NoNode THEN NoVal ELSE fq_data[head]

\* try_pop: the result, old_head?old_head->data:std::shared_ptr<T>()
FqResult(t) ==
    IF fq_old_head[t] = NoNode THEN NoVal ELSE fq_data[fq_old_head[t]]

\* try_pop: return the result; old_head goes out of scope and its node is
\* destroyed
FqPopReturn(t) ==
    /\ fq_pc[t] = "pop_return"
    /\ IF fq_old_head[t] = NoNode
       THEN UNCHANGED <<fq_nodes, fq_data, fq_next, fq_popped>>
       ELSE /\ fq_popped' = Append(fq_popped, FqResult(t))
            /\ fq_nodes' = fq_nodes \ {fq_old_head[t]}
            /\ fq_data' = [fq_data EXCEPT ![fq_old_head[t]] = NoVal]
            /\ fq_next' = [fq_next EXCEPT ![fq_old_head[t]] = NoNode]
    /\ fq_old_head' = [fq_old_head EXCEPT ![t] = NoNode]
    /\ fq_pc' = [fq_pc EXCEPT ![t] = "idle"]
    /\ UNCHANGED <<head, tail, head_mutex, tail_mutex, fq_new_data, fq_p, fq_tl,
                   fq_pushed, fq_callers>>

StepFQ ==
    \E t \in FqThreads :
        \/ \E v \in Values : FqCallPush(t, v)
        \/ FqPushLock(t)
        \/ FqPushData(t)
        \/ FqPushNext(t)
        \/ FqPushTail(t)
        \/ FqPushUnlock(t)
        \/ FqPopLock(t)
        \/ FqGetTailLock(t)
        \/ FqGetTail(t)
        \/ FqPopHead(t)
        \/ FqPopUnlock(t)
        \/ FqPopReturn(t)

NextFQ == StepFQ /\ UNCHANGED <<cqVars, listVars, stackVars, swapVars, hierVars, demoVars, guardVars, makeVars, swap2Vars, rankVars, wrapVars, ulockVars, thrVars>>

(***************************************************************************)
(* threadsafe_list.                                                        *)
(***************************************************************************)
ListThreads == 1..NListThreads
\* the values stored in the list: the inputs of the demonstration program
ListValues == {7, 9, 10}
\* node head, the sentinel, a member of the list object
HeadNode == 1
\* the addresses of the data nodes
LNodeIds == 2..(MaxListPush + 1)
\* the predicates passed to find_first_if and remove_if, each as the set of
\* values it holds for: always true, and equality with one value
Preds == {ListValues} \cup {{v} : v \in ListValues}

\* new node(value): an address that holds no live node
LFresh == CHOOSE n \in LNodeIds : n \notin l_nodes /\
              \A m \in LNodeIds : m \notin l_nodes => n <= m

RECURSIVE ChainFrom(_, _)
\* the data of the nodes from node n on, following next at most k times
ChainFrom(n, k) ==
    IF n = NoNode \/ k = 0 THEN <<>>
    ELSE <<l_data[n]>> \o ChainFrom(l_next[n], k - 1)

\* the data of the data nodes, front to back
ListContents == ChainFrom(l_next[HeadNode], MaxListPush + 1)

RECURSIVE NodesFrom(_, _)
NodesFrom(n, k) ==
    IF n = NoNode \/ k = 0 THEN <<>>
    ELSE <<n>> \o NodesFrom(l_next[n], k - 1)

\* the data nodes, front to back
ChainNodes == NodesFrom(l_next[HeadNode], MaxListPush + 1)

RECURSIVE Reverse(_)
Reverse(q) == IF q = <<>> THEN <<>> ELSE Append(Reverse(Tail(q)), Head(q))

\* threadsafe_list(): node head with no data and no next
InitList ==
    /\ l_nodes = {HeadNode}
    /\ l_m = [n \in {HeadNode} \cup LNodeIds |-> NoThread]
    /\ l_data = [n \in {HeadNode} \cup LNodeIds |-> NoVal]
    /\ l_next = [n \in {HeadNode} \cup LNodeIds |-> NoNode]
    /\ l_pc = [t \in ListThreads |-> "idle"]
    /\ l_op = [t \in ListThreads |-> "none"]
    /\ l_pred = [t \in ListThreads |-> {}]
    /\ l_new = [t \in ListThreads |-> NoNode]
    /\ l_cur = [t \in ListThreads |-> NoNode]
    /\ l_nxt = [t \in ListThreads |-> NoNode]
    /\ l_lk = [t \in ListThreads |-> NoNode]
    /\ l_next_lk = [t \in ListThreads |-> NoNode]
    /\ l_res = [t \in ListThreads |-> NoVal]
    /\ l_visited = [t \in ListThreads |-> <<>>]
    /\ l_before = [t \in ListThreads |-> <<>>]
    /\ l_pushed = <<>>
    /\ l_removed = 0
    /\ l_dtor = FALSE

\* the push_front calls begun so far
LPushCalls ==
    Len(l_pushed)
    + Cardinality({u \in ListThreads : l_pc[u] \in {"pf_lock", "pf_link"}})

\* push_front: std::unique_ptr<node> new_node(new node(value)); no lock held
LCallPushFront(t, v) ==
    /\ l_pc[t] = "idle"
    /\ ~l_dtor
    /\ LPushCalls < MaxListPush
    /\ l_nodes # {HeadNode} \cup LNodeIds
    /\ l_new' = [l_new EXCEPT ![t] = LFresh]
    /\ l_nodes' = l_nodes \cup {LFresh}
    /\ l_data' = [l_data EXCEPT ![LFresh] = v]
    /\ l_next' = [l_next EXCEPT ![LFresh] = NoNode]
    /\ l_op' = [l_op EXCEPT ![t] = "push_front"]
    /\ l_before' = [l_before EXCEPT ![t] = ListContents]
    /\ l_pc' = [l_pc EXCEPT ![t] = "pf_lock"]
    /\ UNCHANGED <<l_m, l_pred, l_cur, l_nxt, l_lk, l_next_lk, l_res,
                   l_visited, l_pushed, l_removed, l_dtor>>

\* push_front: std::lock_guard<std::mutex> lk(head.m)
LPfLock(t) ==
    /\ l_pc[t] = "pf_lock"
    /\ l_m[HeadNode] = NoThread
    /\ l_m' = [l_m EXCEPT ![HeadNode] = t]
    /\ l_lk' = [l_lk EXCEPT ![t] = HeadNode]
    /\ l_pc' = [l_pc EXCEPT ![t] = "pf_link"]
    /\ UNCHANGED <<l_nodes, l_data, l_next, l_op, l_pred, l_new, l_cur, l_nxt,
                   l_next_lk, l_res, l_visited, l_before, l_pushed, l_removed,
                   l_dtor>>

\* mutant of LPfLink: the new node is linked in behind the first data node
LPfLinkSecond(t) ==
    /\ l_pc[t] = "pf_link"
    /\ IF l_next[HeadNode] = NoNode
       THEN l_next' = [l_next EXCEPT ![l_new[t]] = NoNode,
                                     ![HeadNode] = l_new[t]]
       ELSE l_next' = [l_next EXCEPT ![l_new[t]] = l_next[l_next[HeadNode]],
                                     ![l_next[HeadNode]] = l_new[t]]
    /\ l_pushed' = Append(l_pushed, l_data[l_new[t]])
    /\ l_pc' = [l_pc EXCEPT ![t] = "pf_unlock"]
    /\ UNCHANGED <<l_nodes, l_m, l_data, l_op, l_pred, l_new, l_cur, l_nxt,
                   l_lk, l_next_lk, l_res, l_visited, l_before, l_removed,
                   l_dtor>>

\* push_front: new_node->next=std::move(head.next);
\*             head.next=std::move(new_node)
LPfLink(t) ==
    /\ l_pc[t] = "pf_link"
    /\ l_next' = [l_next EXCEPT ![l_new[t]] = l_next[HeadNode],
                                ![HeadNode] = l_new[t]]
    /\ l_pushed' = Append(l_pushed, l_data[l_new[t]])
    /\ l_pc' = [l_pc EXCEPT ![t] = "pf_unlock"]
    /\ UNCHANGED <<l_nodes, l_m, l_data, l_op, l_pred, l_new, l_cur, l_nxt,
                   l_lk, l_next_lk, l_res, l_visited, l_before, l_removed,
                   l_dtor>>

\* mutant of Released: the guards release nothing
ReleasedNothing(t) == l_m

\* the mutexes with the locks lk and next_lk of thread t released
Released(t) ==
    [n \in DOMAIN l_m |->
        IF n \in {l_lk[t], l_next_lk[t]} /\ l_m[n] = t THEN NoThread ELSE l_m[n]]

\* the end of a member function: the locks the guards still own are released
\* and the locals are gone
LReturn(t, from) ==
    /\ l_pc[t] = from
    /\ l_m' = Released(t)
    /\ l_pc' = [l_pc EXCEPT ![t] = "idle"]
    /\ l_op' = [l_op EXCEPT ![t] = "none"]
    /\ l_pred' = [l_pred EXCEPT ![t] = {}]
    /\ l_new' = [l_new EXCEPT ![t] = NoNode]
    /\ l_cur' = [l_cur EXCEPT ![t] = NoNode]
    /\ l_nxt' = [l_nxt EXCEPT ![t] = NoNode]
    /\ l_lk' = [l_lk EXCEPT ![t] = NoNode]
    /\ l_next_lk' = [l_next_lk EXCEPT ![t] = NoNode]
    /\ l_res' = [l_res EXCEPT ![t] = NoVal]
    /\ l_visited' = [l_visited EXCEPT ![t] = <<>>]
    /\ l_before' = [l_before EXCEPT ![t] = <<>>]
    /\ UNCHANGED <<l_nodes, l_data, l_next, l_pushed, l_removed, l_dtor>>

\* push_front: return
LPfUnlock(t) == LReturn(t, "pf_unlock")

\* for_each, find_first_if, remove_if:
\* node* current=&head; std::unique_lock<std::mutex> lk(head.m)
LEnter(t, op, P) ==
    /\ l_pc[t] = "idle"
    /\ l_m[HeadNode] = NoThread
    /\ l_m' = [l_m EXCEPT ![HeadNode] = t]
    /\ l_cur' = [l_cur EXCEPT ![t] = HeadNode]
    /\ l_lk' = [l_lk EXCEPT ![t] = HeadNode]
    /\ l_op' = [l_op EXCEPT ![t] = op]
    /\ l_pred' = [l_pred EXCEPT ![t] = P]
    /\ l_before' = [l_before EXCEPT ![t] = ListContents]
    /\ l_pc' = [l_pc EXCEPT ![t] = "loop"]
    /\ UNCHANGED <<l_nodes, l_data, l_next, l_new, l_nxt, l_next_lk, l_res,
                   l_visited, l_pushed, l_removed>>

LCallForEach(t) == ~l_dtor /\ LEnter(t, "for_each", {}) /\ UNCHANGED l_dtor

LCallFindFirstIf(t, P) ==
    ~l_dtor /\ LEnter(t, "find_first_if", P) /\ UNCHANGED l_dtor

LCallRemoveIf(t, P) ==
    ~l_dtor /\ LEnter(t, "remove_if", P) /\ UNCHANGED l_dtor

\* ~threadsafe_list(): remove_if([](node const&){return true;}), when no
\* thread uses the list any more
LDestructor(t) ==
    /\ ~l_dtor
    /\ \A u \in ListThreads : l_pc[u] = "idle"
    /\ LEnter(t, "remove_if", ListValues)
    /\ l_dtor' = TRUE

\* mutant of LLoop: the mutex of current is released before next is locked
LLoopUnlocksFirst(t) ==
    /\ l_pc[t] = "loop"
    /\ l_nxt' = [l_nxt EXCEPT ![t] = l_next[l_cur[t]]]
    /\ l_m' = [n \in DOMAIN l_m |->
                  IF n = l_lk[t] /\ l_op[t] # "remove_if" THEN NoThread
                  ELSE l_m[n]]
    /\ l_pc' = [l_pc EXCEPT ![t] =
                   IF l_next[l_cur[t]] = NoNode THEN "exit" ELSE "lock_next"]
    /\ UNCHANGED <<l_nodes, l_data, l_next, l_op, l_pred, l_new, l_cur,
                   l_lk, l_next_lk, l_res, l_visited, l_before, l_pushed,
                   l_removed, l_dtor>>

\* while(node* const next=current->next.get())
LLoop(t) ==
    /\ l_pc[t] = "loop"
    /\ l_nxt' = [l_nxt EXCEPT ![t] = l_next[l_cur[t]]]
    /\ l_pc' = [l_pc EXCEPT ![t] =
                   IF l_next[l_cur[t]] = NoNode THEN "exit" ELSE "lock_next"]
    /\ UNCHANGED <<l_nodes, l_m, l_data, l_next, l_op, l_pred, l_new, l_cur,
                   l_lk, l_next_lk, l_res, l_visited, l_before, l_pushed,
                   l_removed, l_dtor>>

\* mutant of LLockNext: the traversal goes on without the mutex of next
LLockNextNoMutex(t) ==
    /\ l_pc[t] = "lock_next"
    /\ l_pc' = [l_pc EXCEPT ![t] =
                   IF l_op[t] = "remove_if" THEN "test" ELSE "unlock_cur"]
    /\ UNCHANGED <<l_nodes, l_m, l_data, l_next, l_op, l_pred, l_new, l_cur,
                   l_nxt, l_lk, l_next_lk, l_res, l_visited, l_before, l_pushed,
                   l_removed, l_dtor>>

\* std::unique_lock<std::mutex> next_lk(next->m)
LLockNext(t) ==
    /\ l_pc[t] = "lock_next"
    /\ l_m[l_nxt[t]] = NoThread
    /\ l_m' = [l_m EXCEPT ![l_nxt[t]] = t]
    /\ l_next_lk' = [l_next_lk EXCEPT ![t] = l_nxt[t]]
    /\ l_pc' = [l_pc EXCEPT ![t] =
                   IF l_op[t] = "remove_if" THEN "test" ELSE "unlock_cur"]
    /\ UNCHANGED <<l_nodes, l_data, l_next, l_op, l_pred, l_new, l_cur, l_nxt,
                   l_lk, l_res, l_visited, l_before, l_pushed, l_removed,
                   l_dtor>>

\* mutant of LUnlockCur: the mutex of current stays locked
LUnlockCurKeeps(t) ==
    /\ l_pc[t] = "unlock_cur"
    /\ l_lk' = [l_lk EXCEPT ![t] = NoNode]
    /\ l_pc' = [l_pc EXCEPT ![t] =
                   CASE l_op[t] = "for_each" -> "apply"
                     [] l_op[t] = "find_first_if" -> "test"
                     [] OTHER -> "advance"]
    /\ UNCHANGED <<l_nodes, l_m, l_data, l_next, l_op, l_pred, l_new, l_cur,
                   l_nxt, l_next_lk, l_res, l_visited, l_before, l_pushed,
                   l_removed, l_dtor>>

\* lk.unlock()
LUnlockCur(t) ==
    /\ l_pc[t] = "unlock_cur"
    /\ l_m' = [l_m EXCEPT ![l_lk[t]] = NoThread]
    /\ l_lk' = [l_lk EXCEPT ![t] = NoNode]
    /\ l_pc' = [l_pc EXCEPT ![t] =
                   CASE l_op[t] = "for_each" -> "apply"
                     [] l_op[t] = "find_first_if" -> "test"
                     [] OTHER -> "advance"]
    /\ UNCHANGED <<l_nodes, l_data, l_next, l_op, l_pred, l_new, l_cur, l_nxt,
                   l_next_lk, l_res, l_visited, l_before, l_pushed, l_removed,
                   l_dtor>>

\* for_each: f(*next->data)
LApply(t) ==
    /\ l_pc[t] = "apply"
    /\ l_visited' = [l_visited EXCEPT ![t] = Append(@, l_nxt[t])]
    /\ l_pc' = [l_pc EXCEPT ![t] = "advance"]
    /\ UNCHANGED <<l_nodes, l_m, l_data, l_next, l_op, l_pred, l_new, l_cur,
                   l_nxt, l_lk, l_next_lk, l_res, l_before, l_pushed,
                   l_removed, l_dtor>>

\* mutant of LTest: find_first_if notes the match and goes on
LTestNoShortCircuit(t) ==
    /\ l_pc[t] = "test"
    /\ IF l_data[l_nxt[t]] \in l_pred[t]
       THEN IF l_op[t] = "find_first_if"
            THEN /\ l_res' = [l_res EXCEPT ![t] = l_data[l_nxt[t]]]
                 /\ l_pc' = [l_pc EXCEPT ![t] = "advance"]
            ELSE /\ l_pc' = [l_pc EXCEPT ![t] = "unlink"]
                 /\ UNCHANGED l_res
       ELSE /\ l_pc' = [l_pc EXCEPT ![t] =
                   IF l_op[t] = "find_first_if" THEN "advance" ELSE "unlock_cur"]
            /\ UNCHANGED l_res
    /\ UNCHANGED <<l_nodes, l_m, l_data, l_next, l_op, l_pred, l_new, l_cur,
                   l_nxt, l_lk, l_next_lk, l_visited, l_before, l_pushed,
                   l_removed, l_dtor>>

\* if(p(*next->data)): find_first_if returns next->data, remove_if unlinks next;
\* else: find_first_if advances, remove_if unlocks lk and advances
LTest(t) ==
    /\ l_pc[t] = "test"
    /\ IF l_data[l_nxt[t]] \in l_pred[t]
       THEN IF l_op[t] = "find_first_if"
            THEN /\ l_res' = [l_res EXCEPT ![t] = l_data[l_nxt[t]]]
                 /\ l_pc' = [l_pc EXCEPT ![t] = "exit"]
            ELSE /\ l_pc' = [l_pc EXCEPT ![t] = "unlink"]
                 /\ UNCHANGED l_res
       ELSE /\ l_pc' = [l_pc EXCEPT ![t] =
                   IF l_op[t] = "find_first_if" THEN "advance" ELSE "unlock_cur"]
            /\ UNCHANGED l_res
    /\ UNCHANGED <<l_nodes, l_m, l_data, l_next, l_op, l_pred, l_new, l_cur,
                   l_nxt, l_lk, l_next_lk, l_visited, l_before, l_pushed,
                   l_removed, l_dtor>>

\* mutant of LUnlink: current->next is left null, the rest of the chain is lost
LUnlinkDropsRest(t) ==
    /\ l_pc[t] = "unlink"
    /\ l_next' = [l_next EXCEPT ![l_cur[t]] = NoNode, ![l_nxt[t]] = NoNode]
    /\ l_removed' = l_removed + 1
    /\ l_pc' = [l_pc EXCEPT ![t] = "unlock_next"]
    /\ UNCHANGED <<l_nodes, l_m, l_data, l_op, l_pred, l_new, l_cur, l_nxt,
                   l_lk, l_next_lk, l_res, l_visited, l_before, l_pushed,
                   l_dtor>>

\* remove_if: old_next=std::move(current->next);
\*            current->next=std::move(next->next)
LUnlink(t) ==
    /\ l_pc[t] = "unlink"
    /\ l_next' = [l_next EXCEPT ![l_cur[t]] = l_next[l_nxt[t]],
                                ![l_nxt[t]] = NoNode]
    /\ l_removed' = l_removed + 1
    /\ l_pc' = [l_pc EXCEPT ![t] = "unlock_next"]
    /\ UNCHANGED <<l_nodes, l_m, l_data, l_op, l_pred, l_new, l_cur, l_nxt,
                   l_lk, l_next_lk, l_res, l_visited, l_before, l_pushed,
                   l_dtor>>

\* remove_if: next_lk.unlock()
LUnlockNext(t) ==
    /\ l_pc[t] = "unlock_next"
    /\ l_m' = [l_m EXCEPT ![l_next_lk[t]] = NoThread]
    /\ l_next_lk' = [l_next_lk EXCEPT ![t] = NoNode]
    /\ l_pc' = [l_pc EXCEPT ![t] = "destroy"]
    /\ UNCHANGED <<l_nodes, l_data, l_next, l_op, l_pred, l_new, l_cur, l_nxt,
                   l_lk, l_res, l_visited, l_before, l_pushed, l_removed,
                   l_dtor>>

\* remove_if: old_next goes out of scope, the unlinked node is destroyed
LDestroy(t) ==
    /\ l_pc[t] = "destroy"
    /\ l_nodes' = l_nodes \ {l_nxt[t]}
    /\ l_data' = [l_data EXCEPT ![l_nxt[t]] = NoVal]
    /\ l_nxt' = [l_nxt EXCEPT ![t] = NoNode]
    /\ l_pc' = [l_pc EXCEPT ![t] = "loop"]
    /\ UNCHANGED <<l_m, l_next, l_op, l_pred, l_new, l_cur, l_lk, l_next_lk,
                   l_res, l_visited, l_before, l_pushed, l_removed, l_dtor>>

\* current=next; lk=std::move(next_lk)
LAdvance(t) ==
    /\ l_pc[t] = "advance"
    /\ l_cur' = [l_cur EXCEPT ![t] = l_nxt[t]]
    /\ l_lk' = [l_lk EXCEPT ![t] = l_next_lk[t]]
    /\ l_next_lk' = [l_next_lk EXCEPT ![t] = NoNode]
    /\ l_pc' = [l_pc EXCEPT ![t] = "loop"]
    /\ UNCHANGED <<l_nodes, l_m, l_data, l_next, l_op, l_pred, l_new, l_nxt,
                   l_res, l_visited, l_before, l_pushed, l_removed, l_dtor>>

\* the end of for_each / find_first_if / remove_if
LExit(t) == LReturn(t, "exit")

StepList(t) ==
    \/ \E v \in ListValues : LCallPushFront(t, v)
    \/ LPfLock(t)
    \/ LPfLink(t)
    \/ LPfUnlock(t)
    \/ LCallForEach(t)
    \/ \E P \in Preds : LCallFindFirstIf(t, P)
    \/ \E P \in Preds : LCallRemoveIf(t, P)
    \/ LDestructor(t)
    \/ LLoop(t)
    \/ LLockNext(t)
    \/ LUnlockCur(t)
    \/ LApply(t)
    \/ LTest(t)
    \/ LUnlink(t)
    \/ LUnlockNext(t)
    \/ LDestroy(t)
    \/ LAdvance(t)
    \/ LExit(t)

NextListSeq == StepList(1) /\ UNCHANGED <<cqVars, fqVars, stackVars, swapVars, hierVars, demoVars, guardVars, makeVars, swap2Vars, rankVars, wrapVars, ulockVars, thrVars>>

\* the values the concurrent threads insert, and the predicate they pass to
\* find_first_if and remove_if, equality with 9: it holds for one of the
\* values and not for the other (the destructor passes the predicate that
\* always holds)
ConcValues == {9, 10}
ConcPreds == {{9}}

\* a step of one of the concurrent threads
StepListConc ==
    \E t \in ListThreads :
        /\ StepList(t)
        /\ (l_pc[t] = "idle" /\ l_pc'[t] = "pf_lock") =>
               /\ LPushCalls < MaxListConcPush
               /\ l_data'[l_new'[t]] \in ConcValues
        /\ l_dtor' \/ l_pred'[t] \in ConcPreds \cup {{}}

\* the steps of thread t inside a member function that wait for nothing
LRuns(t) ==
    \/ LPfLink(t)
    \/ LPfUnlock(t)
    \/ LLoop(t)
    \/ LUnlockCur(t)
    \/ LApply(t)
    \/ LTest(t)
    \/ LUnlink(t)
    \/ LUnlockNext(t)
    \/ LDestroy(t)
    \/ LAdvance(t)
    \/ LExit(t)

(***************************************************************************)
(* Fairness of the scheduler and of std::mutex: a thread inside a member   *)
(* function that can take a step takes one, and a lock that is possible    *)
(* again and again succeeds.  Nothing forces a thread to call a member     *)
(* function; the functions passed to the list return.                      *)
(***************************************************************************)
FairList ==
    \A t \in ListThreads :
        /\ WF_listVars(LRuns(t))
        /\ SF_listVars(LPfLock(t) \/ LLockNext(t))

NextList == StepListConc /\ UNCHANGED <<cqVars, fqVars, stackVars, swapVars, hierVars, demoVars, guardVars, makeVars, swap2Vars, rankVars, wrapVars, ulockVars, thrVars>>

---------------------------------------------------------------------------
(***************************************************************************)
(* threadsafe_stack<T>: the member functions.                              *)
(***************************************************************************)
StackThreads == 1..NStackThreads

InitStack ==
    /\ s_data = << >>
    /\ s_m = NoThread
    /\ s_pc = [t \in StackThreads |-> "idle"]
    /\ s_ovl = [t \in StackThreads |-> "none"]
    /\ s_arg = [t \in StackThreads |-> NoVal]
    /\ s_res = [t \in StackThreads |-> NoVal]
    /\ s_exc = [t \in StackThreads |-> "none"]
    /\ s_out = [t \in StackThreads |-> "none"]
    /\ s_before = [t \in StackThreads |-> << >>]
    /\ s_pushed = << >>
    /\ s_popped = << >>
    /\ s_mixed = FALSE

\* std::stack::empty, top, pop and push
StackEmptyNever(d) == FALSE
StackEmpty(d) == Len(d) = 0

StackTopBottom(d) == d[1]
StackTop(d) == d[Len(d)]

StackPop(d) == SubSeq(d, 1, Len(d) - 1)

StackPush(d, v) == Append(d, v)

\* the constructor of lock_guard: the call blocks until m is free
SLock(t, to) ==
    /\ s_pc[t] = "idle"
    /\ s_m = NoThread
    /\ s_m' = t
    /\ s_pc' = [s_pc EXCEPT ![t] = to]
    /\ s_before' = [s_before EXCEPT ![t] = s_data]

\* the call ends, by return or by an exception: the lock_guard is destroyed
SLeave(t, how) ==
    /\ s_m = t
    /\ s_m' = NoThread
    /\ s_pc' = [s_pc EXCEPT ![t] = "idle"]
    /\ s_ovl' = [s_ovl EXCEPT ![t] = "none"]
    /\ s_arg' = [s_arg EXCEPT ![t] = NoVal]
    /\ s_res' = [s_res EXCEPT ![t] = NoVal]
    /\ s_exc' = [s_exc EXCEPT ![t] = "none"]
    /\ s_before' = [s_before EXCEPT ![t] = << >>]
    /\ s_out' = [s_out EXCEPT ![t] = how]

\* the push calls begun so far
SPushCalls ==
    Len(s_pushed) + Cardinality({u \in StackThreads : s_pc[u] = "push_data"})

\* push(T value): lock_guard lock(m)
SPushLock(t, v) ==
    /\ SPushCalls < MaxStackPush
    /\ SLock(t, "push_data")
    /\ s_arg' = [s_arg EXCEPT ![t] = v]
    /\ UNCHANGED <<s_data, s_ovl, s_res, s_exc, s_out, s_pushed, s_popped,
                   s_mixed>>

\* data.push(value)
SPushData(t) ==
    /\ s_pc[t] = "push_data"
    /\ s_data' = StackPush(s_data, s_arg[t])
    /\ s_pushed' = Append(s_pushed, s_arg[t])
    /\ s_mixed' = (s_mixed \/ s_popped # << >>)
    /\ s_pc' = [s_pc EXCEPT ![t] = "push_unlock"]
    /\ UNCHANGED <<s_m, s_ovl, s_arg, s_res, s_exc, s_out, s_before, s_popped>>

SPushUnlock(t) ==
    /\ s_pc[t] = "push_unlock"
    /\ SLeave(t, "pushed")
    /\ UNCHANGED <<s_data, s_pushed, s_popped, s_mixed>>

\* pop() and pop(T&): lock_guard lock(m)
SPopLock(t, o) ==
    /\ SLock(t, "pop_check")
    /\ s_ovl' = [s_ovl EXCEPT ![t] = o]
    /\ UNCHANGED <<s_data, s_arg, s_res, s_exc, s_out, s_pushed, s_popped,
                   s_mixed>>

\* if(data.empty()) throw empty_stack();
SPopCheck(t) ==
    /\ s_pc[t] = "pop_check"
    /\ IF StackEmpty(s_data)
          THEN /\ s_exc' = [s_exc EXCEPT ![t] = "empty_stack"]
               /\ s_pc' = [s_pc EXCEPT ![t] = "pop_throw"]
          ELSE /\ s_pc' = [s_pc EXCEPT ![t] = "pop_top"]
               /\ UNCHANGED s_exc
    /\ UNCHANGED <<s_data, s_m, s_ovl, s_arg, s_res, s_out, s_before,
                   s_pushed, s_popped, s_mixed>>

\* mutant of SPopTop: the element is removed while it is copied
SPopTopRemoves(t) ==
    /\ s_pc[t] = "pop_top"
    /\ \/ /\ s_res' = [s_res EXCEPT ![t] = StackTop(s_data)]
          /\ s_pc' = [s_pc EXCEPT ![t] = "pop_unlock"]
          /\ s_popped' = Append(s_popped, StackTop(s_data))
          /\ UNCHANGED s_exc
       \/ /\ s_exc' = [s_exc EXCEPT ![t] = "copy_failed"]
          /\ s_pc' = [s_pc EXCEPT ![t] = "pop_throw"]
          /\ UNCHANGED <<s_res, s_popped>>
    /\ s_data' = StackPop(s_data)
    /\ UNCHANGED <<s_m, s_ovl, s_arg, s_out, s_before, s_pushed, s_mixed>>

\* make_shared<T>(data.top()), popped_val = data.top(): the copy of T is
\* made, or it throws
SPopTop(t) ==
    /\ s_pc[t] = "pop_top"
    /\ \/ /\ s_res' = [s_res EXCEPT ![t] = StackTop(s_data)]
          /\ s_pc' = [s_pc EXCEPT ![t] = "pop_remove"]
          /\ UNCHANGED s_exc
       \/ /\ s_exc' = [s_exc EXCEPT ![t] = "copy_failed"]
          /\ s_pc' = [s_pc EXCEPT ![t] = "pop_throw"]
          /\ UNCHANGED s_res
    /\ UNCHANGED <<s_data, s_m, s_ovl, s_arg, s_out, s_before, s_pushed,
                   s_popped, s_mixed>>

\* data.pop()
SPopRemove(t) ==
    /\ s_pc[t] = "pop_remove"
    /\ s_data' = StackPop(s_data)
    /\ s_popped' = Append(s_popped, s_res[t])
    /\ s_pc' = [s_pc EXCEPT ![t] = "pop_unlock"]
    /\ UNCHANGED <<s_m, s_ovl, s_arg, s_res, s_exc, s_out, s_before, s_pushed,
                   s_mixed>>

\* return res / the end of pop(T&)
SPopUnlock(t) ==
    /\ s_pc[t] = "pop_unlock"
    /\ SLeave(t, "popped")
    /\ UNCHANGED <<s_data, s_pushed, s_popped, s_mixed>>

\* the exception leaves the call: unwinding destroys the lock_guard
SPopThrow(t) ==
    /\ s_pc[t] = "pop_throw"
    /\ SLeave(t, s_exc[t])
    /\ UNCHANGED <<s_data, s_pushed, s_popped, s_mixed>>

\* empty(): lock_guard lock(m)
SEmptyLock(t) ==
    /\ SLock(t, "empty_read")
    /\ UNCHANGED <<s_data, s_ovl, s_arg, s_res, s_exc, s_out, s_pushed,
                   s_popped, s_mixed>>

\* return data.empty()
SEmptyReturn(t) ==
    /\ s_pc[t] = "empty_read"
    /\ SLeave(t, IF StackEmpty(s_data) THEN "is_empty" ELSE "not_empty")
    /\ UNCHANGED <<s_data, s_pushed, s_popped, s_mixed>>

StepStack(t) ==
    \/ \E v \in Values : SPushLock(t, v)
    \/ SPushData(t)
    \/ SPushUnlock(t)
    \/ \E o \in Overloads : SPopLock(t, o)
    \/ SPopCheck(t)
    \/ SPopTop(t)
    \/ SPopRemove(t)
    \/ SPopUnlock(t)
    \/ SPopThrow(t)
    \/ SEmptyLock(t)
    \/ SEmptyReturn(t)

NextStackSeq == StepStack(1) /\ UNCHANGED <<cqVars, fqVars, listVars, swapVars, hierVars, demoVars, guardVars, makeVars, swap2Vars, rankVars, wrapVars, ulockVars, thrVars>>

NextStack ==
    /\ \E t \in StackThreads : StepStack(t)
    /\ UNCHANGED <<cqVars, fqVars, listVars, swapVars, hierVars, demoVars, guardVars, makeVars, swap2Vars, rankVars, wrapVars, ulockVars, thrVars>>

---------------------------------------------------------------------------
(***************************************************************************)
(* swap(X&, X&) with std::lock and adopted lock_guards (unnamed/part_000). *)
(* Two instances of X, "a" and "b"; threads call swap on any pair of them. *)
(* std::lock acquires its mutexes by lock(), try_lock() and unlock() in an *)
(* unspecified order: it blocks on one of them, tries the other and, when  *)
(* that one is busy, releases what it holds and starts again.              *)
(***************************************************************************)
SwapThreads == 1..NSwapThreads

InitSwap ==
    /\ x_detail = OrigDetail
    /\ x_m = [o \in Objs |-> NoThread]
    /\ x_pc = [t \in SwapThreads |-> "idle"]
    /\ x_lhs = [t \in SwapThreads |-> NoObj]
    /\ x_rhs = [t \in SwapThreads |-> NoObj]
    /\ x_done = 0
    /\ x_exch = 0

\* the mutexes thread t owns
Held(t) == {o \in Objs : x_m[o] = t}

\* the calls on two different instances begun so far
SwapCalls ==
    x_done + Cardinality({u \in SwapThreads :
                             x_pc[u] # "idle" /\ x_lhs[u] # x_rhs[u]})

\* a thread calls swap(lhs, rhs)
SwCall(t, l, r) ==
    /\ x_pc[t] = "idle"
    /\ l # r => SwapCalls < MaxSwaps
    /\ x_pc' = [x_pc EXCEPT ![t] = "check"]
    /\ x_lhs' = [x_lhs EXCEPT ![t] = l]
    /\ x_rhs' = [x_rhs EXCEPT ![t] = r]
    /\ UNCHANGED <<x_detail, x_m, x_done, x_exch>>

\* if(&lhs==&rhs) return;
SwCheck(t) ==
    /\ x_pc[t] = "check"
    /\ IF x_lhs[t] = x_rhs[t]
          THEN /\ x_pc' = [x_pc EXCEPT ![t] = "idle"]
               /\ x_lhs' = [x_lhs EXCEPT ![t] = NoObj]
               /\ x_rhs' = [x_rhs EXCEPT ![t] = NoObj]
          ELSE /\ x_pc' = [x_pc EXCEPT ![t] = "lock"]
               /\ UNCHANGED <<x_lhs, x_rhs>>
    /\ UNCHANGED <<x_detail, x_m, x_done, x_exch>>

\* the mutexes passed to std::lock
SwMutexesOnlyLhs(l, r) == {l}
SwMutexes(l, r) == {l, r}

\* what std::lock does when the try_lock of the other mutex fails
OnBusyWait == "wait"
OnBusy == "back_off"

\* std::lock: lock() on the mutex of instance o
SwLockFirstOn(t, o) ==
    /\ x_pc[t] = "lock"
    /\ o \in SwMutexes(x_lhs[t], x_rhs[t])
    /\ x_m[o] = NoThread
    /\ x_m' = [x_m EXCEPT ![o] = t]
    /\ x_pc' = [x_pc EXCEPT ![t] =
                   IF SwMutexes(x_lhs[t], x_rhs[t]) = {o}
                      THEN "locked" ELSE "try"]
    /\ UNCHANGED <<x_detail, x_lhs, x_rhs, x_done, x_exch>>

\* std::lock: lock() on one of the mutexes
SwLockFirst(t) == \E o \in Objs : SwLockFirstOn(t, o)

\* std::lock: try_lock() on the mutex of instance o succeeds
SwTryOkOn(t, o) ==
    /\ x_pc[t] = "try"
    /\ o \in SwMutexes(x_lhs[t], x_rhs[t]) \ Held(t)
    /\ x_m[o] = NoThread
    /\ x_m' = [x_m EXCEPT ![o] = t]
    /\ x_pc' = [x_pc EXCEPT ![t] = "locked"]
    /\ UNCHANGED <<x_detail, x_lhs, x_rhs, x_done, x_exch>>

\* std::lock: try_lock() on the other mutex succeeds; std::lock returns
SwTryOk(t) == \E o \in Objs : SwTryOkOn(t, o)

\* std::lock: try_lock() on the other mutex fails; the mutex held is
\* released and the acquisition starts again
SwBackOff(t) ==
    /\ x_pc[t] = "try"
    /\ OnBusy = "back_off"
    /\ \E o \in SwMutexes(x_lhs[t], x_rhs[t]) \ Held(t) : x_m[o] # NoThread
    /\ x_m' = [o \in Objs |-> IF x_m[o] = t THEN NoThread ELSE x_m[o]]
    /\ x_pc' = [x_pc EXCEPT ![t] = "lock"]
    /\ UNCHANGED <<x_detail, x_lhs, x_rhs, x_done, x_exch>>

\* swap(some_big_object&, some_big_object&): declared, not defined
SwapDetail(d, l, r) == [d EXCEPT ![l] = d[r], ![r] = d[l]]

\* lock_a and lock_b adopt the mutexes; swap(lhs.some_detail,rhs.some_detail)
SwExchange(t) ==
    /\ x_pc[t] = "locked"
    /\ x_detail' = SwapDetail(x_detail, x_lhs[t], x_rhs[t])
    /\ x_exch' = x_exch + 1
    /\ x_pc' = [x_pc EXCEPT ![t] = "unlock_b"]
    /\ UNCHANGED <<x_m, x_lhs, x_rhs, x_done>>

\* the destructor of lock_b
SwUnlockB(t) ==
    /\ x_pc[t] = "unlock_b"
    /\ x_m' = [x_m EXCEPT ![x_rhs[t]] = NoThread]
    /\ x_pc' = [x_pc EXCEPT ![t] = "unlock_a"]
    /\ UNCHANGED <<x_detail, x_lhs, x_rhs, x_done, x_exch>>

\* the destructor of lock_a; the call returns
SwUnlockA(t) ==
    /\ x_pc[t] = "unlock_a"
    /\ x_m' = [x_m EXCEPT ![x_lhs[t]] = NoThread]
    /\ x_pc' = [x_pc EXCEPT ![t] = "idle"]
    /\ x_lhs' = [x_lhs EXCEPT ![t] = NoObj]
    /\ x_rhs' = [x_rhs EXCEPT ![t] = NoObj]
    /\ x_done' = x_done + 1
    /\ UNCHANGED <<x_detail, x_exch>>

StepSwap(t) ==
    \/ \E l, r \in Objs : SwCall(t, l, r)
    \/ SwCheck(t)
    \/ SwLockFirst(t)
    \/ SwTryOk(t)
    \/ SwBackOff(t)
    \/ SwExchange(t)
    \/ SwUnlockB(t)
    \/ SwUnlockA(t)

NextSwap ==
    /\ \E t \in SwapThreads : StepSwap(t)
    /\ UNCHANGED <<cqVars, fqVars, listVars, stackVars, hierVars, demoVars, guardVars, makeVars, swap2Vars, rankVars, wrapVars, ulockVars, thrVars>>

(***************************************************************************)
(* The scheduler is fair to a thread inside swap: a step that stays        *)
(* possible is taken, and an acquisition that is possible again and again  *)
(* succeeds.  Nothing forces a thread to call swap.                        *)
(***************************************************************************)
FairSwap ==
    \A t \in SwapThreads :
        /\ WF_swapVars(SwCheck(t))
        /\ SF_swapVars(SwLockFirst(t))
        /\ SF_swapVars(SwTryOk(t))
        /\ WF_swapVars(SwTryOk(t) \/ SwBackOff(t))
        /\ WF_swapVars(SwExchange(t))
        /\ WF_swapVars(SwUnlockB(t))
        /\ WF_swapVars(SwUnlockA(t))

---------------------------------------------------------------------------
(***************************************************************************)
(* hierarchical_mutex: lock() and unlock(), and the functions using the    *)
(* three mutexes.                                                          *)
(***************************************************************************)
HierThreads == 1..NHierThreads

\* the initial this_thread_hierarchy_value; the values are only compared
ULONG_MAX == 2147483647

HMutexes == {"high_level_mutex", "low_level_mutex", "other_mutex"}

\* hierarchical_mutex high_level_mutex(10000), low_level_mutex(5000),
\* other_mutex(100)
hierarchy_value ==
    [m \in HMutexes |-> CASE m = "high_level_mutex" -> 10000
                          [] m = "low_level_mutex" -> 5000
                          [] m = "other_mutex" -> 100]

\* high_level_func, with low_level_func inside it
HighLevelFunc ==
    << <<"lock", "high_level_mutex">>,
       <<"lock", "low_level_mutex">>,
       <<"call", "do_low_level_stuff">>,
       <<"unlock", "low_level_mutex">>,
       <<"call", "high_level_stuff">>,
       <<"unlock", "high_level_mutex">> >>

HPrograms == {"thread_a", "thread_b"}

\* the statements of thread_a and of thread_b, calls expanded
Program(p) ==
    IF p = "thread_a"
       THEN HighLevelFunc
       ELSE << <<"lock", "other_mutex">> >> \o HighLevelFunc
            \o << <<"call", "do_other_stuff">>, <<"unlock", "other_mutex">> >>

InitHier ==
    /\ h_owner = [m \in HMutexes |-> NoThread]
    /\ h_prev = [m \in HMutexes |-> 0]
    /\ h_this = [t \in HierThreads |-> ULONG_MAX]
    /\ h_prog = [t \in HierThreads |-> "none"]
    /\ h_ip = [t \in HierThreads |-> 0]
    /\ h_pc = [t \in HierThreads |-> "idle"]
    /\ h_guards = [t \in HierThreads |-> << >>]
    /\ h_exc = [t \in HierThreads |-> "none"]
    /\ h_out = [t \in HierThreads |-> <<"none", "none">>]

\* the first step of a statement
FirstStep(ins) ==
    CASE ins[1] = "lock" -> "check"
      [] ins[1] = "unlock" -> "restore"
      [] ins[1] = "call" -> "call"

\* the statement thread t is at, and the mutex it is about
HIns(t) == Program(h_prog[t])[h_ip[t]]
HMut(t) == HIns(t)[2]

\* the function ends: by return, or with the exception leaving it
HEnd(t, how) ==
    /\ h_pc' = [h_pc EXCEPT ![t] = "idle"]
    /\ h_ip' = [h_ip EXCEPT ![t] = 0]
    /\ h_prog' = [h_prog EXCEPT ![t] = "none"]
    /\ h_exc' = [h_exc EXCEPT ![t] = "none"]
    /\ h_out' = [h_out EXCEPT ![t] = <<h_prog[t], how>>]

\* the thread goes on to its next statement, or returns after the last
HAdvance(t) ==
    IF h_ip[t] = Len(Program(h_prog[t]))
       THEN HEnd(t, "completed")
       ELSE /\ h_ip' = [h_ip EXCEPT ![t] = h_ip[t] + 1]
            /\ h_pc' = [h_pc EXCEPT ![t] =
                           FirstStep(Program(h_prog[t])[h_ip[t] + 1])]
            /\ UNCHANGED <<h_prog, h_exc, h_out>>

\* a thread calls thread_a() or thread_b()
HRun(t, p) ==
    /\ h_pc[t] = "idle"
    /\ h_prog' = [h_prog EXCEPT ![t] = p]
    /\ h_ip' = [h_ip EXCEPT ![t] = 1]
    /\ h_pc' = [h_pc EXCEPT ![t] = FirstStep(Program(p)[1])]
    /\ UNCHANGED <<h_owner, h_prev, h_this, h_guards, h_exc, h_out>>

\* check_for_hierarchy_violation: this_thread_hierarchy_value <= hierarchy_value
HViolationNever(cur, rank) == FALSE
HViolation(cur, rank) == cur <= rank

\* lock(): check_for_hierarchy_violation(), throwing std::logic_error
HCheck(t) ==
    /\ h_pc[t] = "check"
    /\ IF HViolation(h_this[t], hierarchy_value[HMut(t)])
          THEN /\ h_exc' = [h_exc EXCEPT ![t] = HMut(t)]
               /\ h_pc' = [h_pc EXCEPT ![t] = "unwind"]
          ELSE /\ h_pc' = [h_pc EXCEPT ![t] = "lock"]
               /\ UNCHANGED h_exc
    /\ UNCHANGED <<h_owner, h_prev, h_this, h_prog, h_ip, h_guards, h_out>>

\* lock(): internal_mutex.lock()
HInternalLock(t) ==
    /\ h_pc[t] = "lock"
    /\ h_owner[HMut(t)] = NoThread
    /\ h_owner' = [h_owner EXCEPT ![HMut(t)] = t]
    /\ h_pc' = [h_pc EXCEPT ![t] = "update"]
    /\ UNCHANGED <<h_prev, h_this, h_prog, h_ip, h_guards, h_exc, h_out>>

\* lock(): update_hierarchy_value(); the lock_guard is constructed
HUpdate(t) ==
    /\ h_pc[t] = "update"
    /\ h_prev' = [h_prev EXCEPT ![HMut(t)] = h_this[t]]
    /\ h_this' = [h_this EXCEPT ![t] = hierarchy_value[HMut(t)]]
    /\ h_guards' = [h_guards EXCEPT ![t] = Append(h_guards[t], HMut(t))]
    /\ HAdvance(t)
    /\ UNCHANGED h_owner

\* do_low_level_stuff(), high_level_stuff(), do_other_stuff(): declared only
HCall(t) ==
    /\ h_pc[t] = "call"
    /\ HAdvance(t)
    /\ UNCHANGED <<h_owner, h_prev, h_this, h_guards>>

\* the youngest live lock_guard of thread t
HTopGuard(t) == h_guards[t][Len(h_guards[t])]

\* unlock(): this_thread_hierarchy_value=previous_hierarchy_value,
\* at the end of a scope or while the exception unwinds it
HRestore(t) ==
    /\ h_pc[t] \in {"restore", "unwind"}
    /\ h_guards[t] # << >>
    /\ h_this' = [h_this EXCEPT ![t] = h_prev[HTopGuard(t)]]
    /\ h_pc' = [h_pc EXCEPT ![t] =
                   IF h_pc[t] = "restore" THEN "unlock" ELSE "unwind_unlock"]
    /\ UNCHANGED <<h_owner, h_prev, h_prog, h_ip, h_guards, h_exc, h_out>>

\* unlock() that leaves internal_mutex locked
HInternalUnlockKeeps(t) ==
    /\ h_pc[t] = "unlock"
    /\ h_guards' = [h_guards EXCEPT ![t] = SubSeq(h_guards[t], 1, Len(h_guards[t]) - 1)]
    /\ HAdvance(t)
    /\ UNCHANGED <<h_owner, h_prev, h_this>>

\* unlock(): internal_mutex.unlock(), at the end of a scope
HInternalUnlock(t) ==
    /\ h_pc[t] = "unlock"
    /\ h_owner' = [h_owner EXCEPT ![HTopGuard(t)] = NoThread]
    /\ h_guards' = [h_guards EXCEPT ![t] = SubSeq(h_guards[t], 1, Len(h_guards[t]) - 1)]
    /\ HAdvance(t)
    /\ UNCHANGED <<h_prev, h_this>>

\* unlock(): internal_mutex.unlock(), while the exception unwinds the scope
HUnwindUnlock(t) ==
    /\ h_pc[t] = "unwind_unlock"
    /\ h_owner' = [h_owner EXCEPT ![HTopGuard(t)] = NoThread]
    /\ h_guards' = [h_guards EXCEPT ![t] = SubSeq(h_guards[t], 1, Len(h_guards[t]) - 1)]
    /\ h_pc' = [h_pc EXCEPT ![t] = "unwind"]
    /\ UNCHANGED <<h_prev, h_this, h_prog, h_ip, h_exc, h_out>>

\* no lock_guard is left: the logic_error leaves thread_a / thread_b
HThrow(t) ==
    /\ h_pc[t] = "unwind"
    /\ h_guards[t] = << >>
    /\ HEnd(t, "logic_error")
    /\ UNCHANGED <<h_owner, h_prev, h_this, h_guards>>

StepHier(t) ==
    \/ \E p \in HPrograms : HRun(t, p)
    \/ HCheck(t)
    \/ HInternalLock(t)
    \/ HUpdate(t)
    \/ HCall(t)
    \/ HRestore(t)
    \/ HInternalUnlock(t)
    \/ HUnwindUnlock(t)
    \/ HThrow(t)

\* a thread inside thread_a or thread_b goes on when it can; a thread that
\* waits in internal_mutex.lock() gets the mutex if it is free again and again
FairHier ==
    \A t \in HierThreads :
        /\ WF_hierVars(HCheck(t) \/ HUpdate(t) \/ HCall(t) \/ HRestore(t)
                         \/ HInternalUnlock(t) \/ HUnwindUnlock(t) \/ HThrow(t))
        /\ SF_hierVars(HInternalLock(t))

NextHier ==
    /\ \E t \in HierThreads : StepHier(t)
    /\ UNCHANGED <<cqVars, fqVars, listVars, stackVars, swapVars, demoVars, guardVars, makeVars, swap2Vars, rankVars, wrapVars, ulockVars, thrVars>>

---------------------------------------------------------------------------
(***************************************************************************)
(* The demonstration program: reducer, getHead, reduce_list and main.      *)
(***************************************************************************)
\* main: a.push_back(7); a.push_back(9); a.push_back(10)
DemoInput == <<7, 9, 10>>

\* the vectors getHead is run with
DemoInputs == UNION {[1..n -> ListValues] : n \in 0..MaxDemoLen}

DNodeIds == 1..(MaxDemoLen + 1)

InitDemo ==
    /\ d_a = << >>
    /\ d_pc = "start"
    /\ d_i = 1
    /\ d_nodes = 0
    /\ d_data = [n \in DNodeIds |-> NoVal]
    /\ d_next = [n \in DNodeIds |-> NoNode]
    /\ d_locked = {}
    /\ d_head = NoNode
    /\ d_cur = NoNode
    /\ d_nxt = NoNode
    /\ d_lk = NoNode
    /\ d_next_lk = NoNode
    /\ d_sum = 0
    /\ d_ret = 0
    /\ d_out = << >>

\* int reducer(int a, int b)
reducerFirst(a, b) == a
reducer(a, b) == a + b

\* main fills the vector a and calls getHead(a)
DMain(a) ==
    /\ d_pc = "start"
    /\ d_a' = a
    /\ d_pc' = "gh_loop"
    /\ UNCHANGED <<d_i, d_nodes, d_data, d_next, d_locked, d_head, d_cur, d_nxt,
                   d_lk, d_next_lk, d_sum, d_ret, d_out>>

\* getHead: list->push_front(*i) for the next element of a
DPushFront ==
    /\ d_pc = "gh_loop"
    /\ d_i <= Len(d_a)
    /\ LET new_node == HeadNode + d_nodes + 1
       IN  /\ d_data' = [d_data EXCEPT ![new_node] = d_a[d_i]]
           /\ d_next' = [d_next EXCEPT ![new_node] = d_next[HeadNode],
                                       ![HeadNode] = new_node]
    /\ d_nodes' = d_nodes + 1
    /\ d_i' = d_i + 1
    /\ UNCHANGED <<d_a, d_pc, d_locked, d_head, d_cur, d_nxt, d_lk, d_next_lk,
                   d_sum, d_ret, d_out>>

\* getHead: the loop is over; return list->getHead()
DGetHeadReturn ==
    /\ d_pc = "gh_loop"
    /\ d_i > Len(d_a)
    /\ d_head' = HeadNode
    /\ d_pc' = "main_if"
    /\ UNCHANGED <<d_a, d_i, d_nodes, d_data, d_next, d_locked, d_cur, d_nxt,
                   d_lk, d_next_lk, d_sum, d_ret, d_out>>

\* main: if(head)
HeadAvailableNever(h) == FALSE
HeadAvailable(h) == h # NoNode

\* main: if(head) std::cout << "HEAD IS AVAILABLE" << std::endl;
DPrintHead ==
    /\ d_pc = "main_if"
    /\ d_out' = IF HeadAvailable(d_head)
                   THEN Append(d_out, <<"head", 0>>) ELSE d_out
    /\ d_pc' = "rl_init"
    /\ UNCHANGED <<d_a, d_i, d_nodes, d_data, d_next, d_locked, d_head, d_cur,
                   d_nxt, d_lk, d_next_lk, d_sum, d_ret>>

\* reduce_list: current=head; sum = 0; unique_lock lk(head->m)
DReduceInit ==
    /\ d_pc = "rl_init"
    /\ d_head \notin d_locked
    /\ d_cur' = d_head
    /\ d_sum' = 0
    /\ d_locked' = d_locked \cup {d_head}
    /\ d_lk' = d_head
    /\ d_pc' = "rl_loop"
    /\ UNCHANGED <<d_a, d_i, d_nodes, d_data, d_next, d_head, d_nxt, d_next_lk,
                   d_ret, d_out>>

\* reduce_list: while(node* const next=current->next.get()); after the loop
\* return sum, which destroys lk
DReduceLoop ==
    /\ d_pc = "rl_loop"
    /\ d_nxt' = d_next[d_cur]
    /\ IF d_next[d_cur] # NoNode
          THEN /\ d_pc' = "rl_lock_next"
               /\ UNCHANGED <<d_locked, d_lk, d_ret, d_i>>
          ELSE /\ d_locked' = d_locked \ {d_lk}
               /\ d_lk' = NoNode
               /\ d_ret' = d_sum
               /\ d_i' = 1
               /\ d_pc' = "main_values"
    /\ UNCHANGED <<d_a, d_nodes, d_data, d_next, d_head, d_cur, d_next_lk,
                   d_sum, d_out>>

\* reduce_list: unique_lock next_lk(next->m)
DLockNext ==
    /\ d_pc = "rl_lock_next"
    /\ d_nxt \notin d_locked
    /\ d_locked' = d_locked \cup {d_nxt}
    /\ d_next_lk' = d_nxt
    /\ d_pc' = "rl_unlock"
    /\ UNCHANGED <<d_a, d_i, d_nodes, d_data, d_next, d_head, d_cur, d_nxt,
                   d_lk, d_sum, d_ret, d_out>>

\* reduce_list: lk.unlock()
DUnlockCur ==
    /\ d_pc = "rl_unlock"
    /\ d_locked' = d_locked \ {d_lk}
    /\ d_lk' = NoNode
    /\ d_pc' = "rl_fold"
    /\ UNCHANGED <<d_a, d_i, d_nodes, d_data, d_next, d_head, d_cur, d_nxt,
                   d_next_lk, d_sum, d_ret, d_out>>

\* reduce_list: if(current->data == NULL) sum = f(*(next->data), 0);
\* else sum = f(*(next->data), sum);
FoldStepNoSum(cur_data, next_data, sum) == reducer(next_data, 0)
FoldStep(cur_data, next_data, sum) ==
    IF cur_data = NoVal THEN reducer(next_data, 0) ELSE reducer(next_data, sum)

DFold ==
    /\ d_pc = "rl_fold"
    /\ d_sum' = FoldStep(d_data[d_cur], d_data[d_nxt], d_sum)
    /\ d_pc' = "rl_print"
    /\ UNCHANGED <<d_a, d_i, d_nodes, d_data, d_next, d_locked, d_head, d_cur,
                   d_nxt, d_lk, d_next_lk, d_ret, d_out>>

\* reduce_list: std::cout << sum << std::endl;
DPrintTotal ==
    /\ d_pc = "rl_print"
    /\ d_out' = Append(d_out, <<"total", d_sum>>)
    /\ d_pc' = "rl_advance"
    /\ UNCHANGED <<d_a, d_i, d_nodes, d_data, d_next, d_locked, d_head, d_cur,
                   d_nxt, d_lk, d_next_lk, d_sum, d_ret>>

\* reduce_list: current=next; lk=std::move(next_lk);
DAdvance ==
    /\ d_pc = "rl_advance"
    /\ d_cur' = d_nxt
    /\ d_lk' = d_next_lk
    /\ d_next_lk' = NoNode
    /\ d_nxt' = NoNode
    /\ d_pc' = "rl_loop"
    /\ UNCHANGED <<d_a, d_i, d_nodes, d_data, d_next, d_locked, d_head, d_sum,
                   d_ret, d_out>>

\* main: for (auto i = a.begin(); i != a.end(); ++i) std::cout << *i << ' ';
DPrintValue ==
    /\ d_pc = "main_values"
    /\ d_i <= Len(d_a)
    /\ d_out' = Append(d_out, <<"value", d_a[d_i]>>)
    /\ d_i' = d_i + 1
    /\ UNCHANGED <<d_a, d_pc, d_nodes, d_data, d_next, d_locked, d_head, d_cur,
                   d_nxt, d_lk, d_next_lk, d_sum, d_ret>>

\* main: std::cout << "SUM: " << sum << std::endl; return 0;
DPrintSum ==
    /\ d_pc = "main_values"
    /\ d_i > Len(d_a)
    /\ d_out' = Append(d_out, <<"sum", d_ret>>)
    /\ d_pc' = "done"
    /\ UNCHANGED <<d_a, d_i, d_nodes, d_data, d_next, d_locked, d_head, d_cur,
                   d_nxt, d_lk, d_next_lk, d_sum, d_ret>>

NextDemo ==
    /\ \/ \E a \in DemoInputs : DMain(a)
       \/ DPushFront
       \/ DGetHeadReturn
       \/ DPrintHead
       \/ DReduceInit
       \/ DReduceLoop
       \/ DLockNext
       \/ DUnlockCur
       \/ DFold
       \/ DPrintTotal
       \/ DAdvance
       \/ DPrintValue
       \/ DPrintSum
    /\ UNCHANGED <<cqVars, fqVars, listVars, stackVars, swapVars, hierVars, guardVars, makeVars, swap2Vars, rankVars, wrapVars, ulockVars, thrVars>>

---------------------------------------------------------------------------
(***************************************************************************)
(* thread_guard: f() and the thread it starts.                             *)
(***************************************************************************)
InitGuard ==
    /\ g_pc = "start"
    /\ g_i = 0
    /\ g_exc = FALSE
    /\ g_worker = "none"
    /\ g_j = 0
    /\ g_joinable = FALSE
    /\ g_joins = 0
    /\ g_out = "none"

\* f: std::thread t(my_func)
GStartThread ==
    /\ g_pc = "start"
    /\ g_worker' = "running"
    /\ g_joinable' = TRUE
    /\ g_pc' = "guard"
    /\ UNCHANGED <<g_i, g_exc, g_j, g_joins, g_out>>

\* f: thread_guard g(t)
GConstructGuard ==
    /\ g_pc = "guard"
    /\ g_pc' = "body"
    /\ UNCHANGED <<g_i, g_exc, g_worker, g_j, g_joinable, g_joins, g_out>>

\* do_something_in_current_thread: one iteration of the loop
GBodyStep ==
    /\ g_pc = "body"
    /\ g_i < MaxMainIter
    /\ g_i' = g_i + 1
    /\ UNCHANGED <<g_pc, g_exc, g_worker, g_j, g_joinable, g_joins, g_out>>

\* do_something_in_current_thread throws: the scope of f is unwound
GBodyRaise ==
    /\ g_pc = "body"
    /\ g_exc' = TRUE
    /\ g_pc' = "guard_dtor"
    /\ UNCHANGED <<g_i, g_worker, g_j, g_joinable, g_joins, g_out>>

\* do_something_in_current_thread returns: the scope of f ends
GBodyReturn ==
    /\ g_pc = "body"
    /\ g_i = MaxMainIter
    /\ g_pc' = "guard_dtor"
    /\ UNCHANGED <<g_i, g_exc, g_worker, g_j, g_joinable, g_joins, g_out>>

\* ~thread_guard: if(t.joinable())
GuardJoinsNever(joinable) == FALSE
GuardJoins(joinable) == joinable

GGuardCheck ==
    /\ g_pc = "guard_dtor"
    /\ g_pc' = IF GuardJoins(g_joinable) THEN "join" ELSE "thread_dtor"
    /\ UNCHANGED <<g_i, g_exc, g_worker, g_j, g_joinable, g_joins, g_out>>

\* ~thread_guard: t.join() returns once the thread of t has finished
GJoin ==
    /\ g_pc = "join"
    /\ g_worker = "finished"
    /\ g_joinable' = FALSE
    /\ g_joins' = g_joins + 1
    /\ g_pc' = "thread_dtor"
    /\ UNCHANGED <<g_i, g_exc, g_worker, g_j, g_out>>

\* ~thread of t (std::terminate if it is joinable), then f returns or the
\* exception leaves f
GThreadDtor ==
    /\ g_pc = "thread_dtor"
    /\ g_out' = IF g_joinable THEN "terminated"
                ELSE IF g_exc THEN "raised" ELSE "returned"
    /\ g_pc' = "end"
    /\ UNCHANGED <<g_i, g_exc, g_worker, g_j, g_joinable, g_joins>>

\* func::operator(): one iteration, do_something(j)
GWorkerStep ==
    /\ g_worker = "running"
    /\ g_j < MaxWorkerIter
    /\ g_j' = g_j + 1
    /\ UNCHANGED <<g_pc, g_i, g_exc, g_worker, g_joinable, g_joins, g_out>>

\* func::operator() returns
GWorkerFinish ==
    /\ g_worker = "running"
    /\ g_j = MaxWorkerIter
    /\ g_worker' = "finished"
    /\ UNCHANGED <<g_pc, g_i, g_exc, g_j, g_joinable, g_joins, g_out>>

NextGuard ==
    /\ \/ GStartThread
       \/ GConstructGuard
       \/ GBodyStep
       \/ GBodyRaise
       \/ GBodyReturn
       \/ GGuardCheck
       \/ GJoin
       \/ GThreadDtor
       \/ GWorkerStep
       \/ GWorkerFinish
    /\ UNCHANGED <<cqVars, fqVars, listVars, stackVars, swapVars, hierVars, demoVars, makeVars, swap2Vars, rankVars, wrapVars, ulockVars, thrVars>>

---------------------------------------------------------------------------
(***************************************************************************)
(* The Makefile: the goals hello, thread-waiting, run-background, all and  *)
(* clean.                                                                  *)
(***************************************************************************)
\* the targets with a recipe that compiles, in the order all names them
MakeTargets == <<"hello", "thread-waiting", "run-background">>

\* target -> the file its recipe compiles
SourceOf ==
    [t \in {"hello", "thread-waiting", "run-background"} |->
        CASE t = "hello" -> "learn/hello-world.cpp"
          [] t = "thread-waiting" -> "learn/thread-waiting.cpp"
          [] t = "run-background" -> "learn/run-background.cpp"]

\* target -> the file its recipe writes (-o)
OutputOf ==
    [t \in {"hello", "thread-waiting", "run-background"} |->
        CASE t = "hello" -> "hello"
          [] t = "thread-waiting" -> "thread-wait"
          [] t = "run-background" -> "run-background"]

Sources == {SourceOf[t] : t \in DOMAIN SourceOf}
Executables == {OutputOf[t] : t \in DOMAIN OutputOf}

InitMake ==
    /\ m_files = Sources
    /\ m_buildbin = "absent"
    /\ m_last = <<"none", "none">>
    /\ m_prev = <<"none", "none">>

\* a target without prerequisites is up to date when a file of its name exists
UpToDate(files, t) == t \in files

\* the recipe of t fails when its source file is missing
RecipeFails(files, t) == SourceOf[t] \notin files

\* the files after make has brought target t up to date
Built(files, t) ==
    IF UpToDate(files, t) \/ RecipeFails(files, t)
       THEN files
       ELSE files \cup {OutputOf[t]}

\* make has failed at target t
Failed(files, t) == ~UpToDate(files, t) /\ RecipeFails(files, t)

\* make with the targets ts as goals, one after the other, stopping at the
\* first recipe that fails: the files afterwards and the exit status
RECURSIVE MakeSeq(_, _)
MakeSeq(files, ts) ==
    IF ts = << >> THEN <<files, "ok">>
    ELSE IF Failed(files, Head(ts)) THEN <<files, "error">>
    ELSE MakeSeq(Built(files, Head(ts)), Tail(ts))

\* a run of make ends
MakeDone(goal, status) ==
    /\ m_last' = <<goal, status>>
    /\ m_prev' = m_last

\* make hello, make thread-waiting, make run-background
MakeTarget(t) ==
    /\ LET r == MakeSeq(m_files, <<t>>)
       IN  /\ m_files' = r[1]
           /\ MakeDone(t, r[2])
    /\ UNCHANGED m_buildbin

\* make, make all: all: hello thread-waiting run-background
MakeAll ==
    /\ LET r == MakeSeq(m_files, MakeTargets)
       IN  /\ m_files' = r[1]
           /\ MakeDone("all", r[2])
    /\ UNCHANGED m_buildbin

\* the files rm -f build/bin removes
CleanRemoves == {}

\* make clean: rm -f build/bin
MakeClean ==
    /\ m_files' = m_files \ CleanRemoves
    /\ m_buildbin' = IF m_buildbin = "file" THEN "absent" ELSE m_buildbin
    /\ MakeDone("clean", IF m_buildbin = "dir" THEN "error" ELSE "ok")

\* somebody removes or restores a source file
EnvSource(f) ==
    /\ m_files' = IF f \in m_files THEN m_files \ {f} ELSE m_files \cup {f}
    /\ UNCHANGED <<m_buildbin, m_last, m_prev>>

\* somebody creates or removes build/bin
EnvBuildBin(k) ==
    /\ k # m_buildbin
    /\ m_buildbin' = k
    /\ UNCHANGED <<m_files, m_last, m_prev>>

NextMake ==
    /\ \/ \E t \in DOMAIN SourceOf : MakeTarget(t)
       \/ MakeAll
       \/ MakeClean
       \/ \E f \in Sources : EnvSource(f)
       \/ \E k \in {"absent", "file", "dir"} : EnvBuildBin(k)
    /\ UNCHANGED <<cqVars, fqVars, listVars, stackVars, swapVars, hierVars, demoVars, guardVars, swap2Vars, rankVars, wrapVars, ulockVars, thrVars>>

---------------------------------------------------------------------------
(***************************************************************************)
(* swap(X&, X&) with deferred unique_locks (unnamed/part_000, 310-325),    *)
(* and the two versions of swap run side by side on the same calls.        *)
(***************************************************************************)
InitSwap2 ==
    /\ y_detail = OrigDetail
    /\ y_m = [o \in Objs |-> NoThread]
    /\ y_pc = [t \in SwapThreads |-> "idle"]
    /\ y_lhs = [t \in SwapThreads |-> NoObj]
    /\ y_rhs = [t \in SwapThreads |-> NoObj]
    /\ y_owns = [t \in SwapThreads |-> {}]

\* a thread calls swap(lhs, rhs)
Sw2Call(t, l, r) ==
    /\ y_pc[t] = "idle"
    /\ y_pc' = [y_pc EXCEPT ![t] = "check"]
    /\ y_lhs' = [y_lhs EXCEPT ![t] = l]
    /\ y_rhs' = [y_rhs EXCEPT ![t] = r]
    /\ UNCHANGED <<y_detail, y_m, y_owns>>

\* if(&lhs==&rhs) return; otherwise lock_a and lock_b are constructed with
\* std::defer_lock: they own nothing
Sw2Check(t) ==
    /\ y_pc[t] = "check"
    /\ IF y_lhs[t] = y_rhs[t]
          THEN /\ y_pc' = [y_pc EXCEPT ![t] = "idle"]
               /\ y_lhs' = [y_lhs EXCEPT ![t] = NoObj]
               /\ y_rhs' = [y_rhs EXCEPT ![t] = NoObj]
          ELSE /\ y_pc' = [y_pc EXCEPT ![t] = "lock"]
               /\ UNCHANGED <<y_lhs, y_rhs>>
    /\ UNCHANGED <<y_detail, y_m, y_owns>>

\* std::lock(lock_a,lock_b): lock() on the unique_lock of instance o
Sw2LockFirstOn(t, o) ==
    /\ y_pc[t] = "lock"
    /\ o \in {y_lhs[t], y_rhs[t]}
    /\ y_m[o] = NoThread
    /\ y_m' = [y_m EXCEPT ![o] = t]
    /\ y_owns' = [y_owns EXCEPT ![t] = @ \cup {o}]
    /\ y_pc' = [y_pc EXCEPT ![t] = "try"]
    /\ UNCHANGED <<y_detail, y_lhs, y_rhs>>

\* std::lock(lock_a,lock_b): try_lock() on the other unique_lock succeeds
Sw2TryOkOn(t, o) ==
    /\ y_pc[t] = "try"
    /\ o \in {y_lhs[t], y_rhs[t]} \ y_owns[t]
    /\ y_m[o] = NoThread
    /\ y_m' = [y_m EXCEPT ![o] = t]
    /\ y_owns' = [y_owns EXCEPT ![t] = @ \cup {o}]
    /\ y_pc' = [y_pc EXCEPT ![t] = "locked"]
    /\ UNCHANGED <<y_detail, y_lhs, y_rhs>>

\* std::lock(lock_a,lock_b): try_lock() on the other unique_lock fails; the
\* unique_lock that owns its mutex is unlocked and the acquisition starts again
Sw2BackOff(t) ==
    /\ y_pc[t] = "try"
    /\ \E o \in {y_lhs[t], y_rhs[t]} \ y_owns[t] : y_m[o] # NoThread
    /\ y_m' = [o \in Objs |-> IF o \in y_owns[t] THEN NoThread ELSE y_m[o]]
    /\ y_owns' = [y_owns EXCEPT ![t] = {}]
    /\ y_pc' = [y_pc EXCEPT ![t] = "lock"]
    /\ UNCHANGED <<y_detail, y_lhs, y_rhs>>

\* swap(lhs.some_detail,rhs.some_detail)
Sw2Exchange(t) ==
    /\ y_pc[t] = "locked"
    /\ y_detail' = SwapDetail(y_detail, y_lhs[t], y_rhs[t])
    /\ y_pc' = [y_pc EXCEPT ![t] = "unlock_b"]
    /\ UNCHANGED <<y_m, y_lhs, y_rhs, y_owns>>

\* mutant of Sw2Release: the destructor unlocks nothing
Sw2ReleaseNothing(t, o) == y_m

\* the destructor of a unique_lock on the mutex of o: it unlocks the mutex
\* when it owns it
Sw2Release(t, o) ==
    IF o \in y_owns[t] THEN [y_m EXCEPT ![o] = NoThread] ELSE y_m

\* the destructor of lock_b
Sw2UnlockB(t) ==
    /\ y_pc[t] = "unlock_b"
    /\ y_m' = Sw2Release(t, y_rhs[t])
    /\ y_owns' = [y_owns EXCEPT ![t] = @ \ {y_rhs[t]}]
    /\ y_pc' = [y_pc EXCEPT ![t] = "unlock_a"]
    /\ UNCHANGED <<y_detail, y_lhs, y_rhs>>

\* the destructor of lock_a; the call returns
Sw2UnlockA(t) ==
    /\ y_pc[t] = "unlock_a"
    /\ y_m' = Sw2Release(t, y_lhs[t])
    /\ y_owns' = [y_owns EXCEPT ![t] = @ \ {y_lhs[t]}]
    /\ y_pc' = [y_pc EXCEPT ![t] = "idle"]
    /\ y_lhs' = [y_lhs EXCEPT ![t] = NoObj]
    /\ y_rhs' = [y_rhs EXCEPT ![t] = NoObj]
    /\ UNCHANGED y_detail

\* one step of thread t in both versions: the same statement of swap, with
\* the same arguments, and the same choice inside std::lock
StepSwapBoth(t) ==
    \/ \E l, r \in Objs : SwCall(t, l, r) /\ Sw2Call(t, l, r)
    \/ SwCheck(t) /\ Sw2Check(t)
    \/ \E o \in Objs : SwLockFirstOn(t, o) /\ Sw2LockFirstOn(t, o)
    \/ \E o \in Objs : SwTryOkOn(t, o) /\ Sw2TryOkOn(t, o)
    \/ SwBackOff(t) /\ Sw2BackOff(t)
    \/ SwExchange(t) /\ Sw2Exchange(t)
    \/ SwUnlockB(t) /\ Sw2UnlockB(t)
    \/ SwUnlockA(t) /\ Sw2UnlockA(t)

NextSwapBoth ==
    /\ \E t \in SwapThreads : StepSwapBoth(t)
    /\ UNCHANGED <<cqVars, fqVars, listVars, stackVars, hierVars, demoVars, guardVars, makeVars, rankVars, wrapVars, ulockVars, thrVars>>

---------------------------------------------------------------------------
(***************************************************************************)
(* hierarchical_mutex: lock(), try_lock() and unlock() called in any       *)
(* sequence.                                                               *)
(***************************************************************************)
\* the calling threads: one, and a second one to contend with it
RankThreads == {1, 2}

InitRank ==
    /\ k_owner = [m \in HMutexes |-> NoThread]
    /\ k_prev = [m \in HMutexes |-> 0]
    /\ k_this = [t \in RankThreads |-> ULONG_MAX]
    /\ k_pc = [t \in RankThreads |-> "idle"]
    /\ k_m = [t \in RankThreads |-> "none"]
    /\ k_held = [t \in RankThreads |-> << >>]
    /\ k_out = [t \in RankThreads |-> "none"]
    /\ k_calls = 0

\* the mutexes in s
KRange(s) == {s[i] : i \in 1..Len(s)}

\* s without its element m
KWithout(s, m) == SelectSeq(s, LAMBDA x : x # m)

\* one more call begins
KBegin ==
    /\ k_calls < MaxRankCalls
    /\ k_calls' = k_calls + 1

\* the call ends: by return, or with an exception leaving it
KEnd(t, how) ==
    /\ k_pc' = [k_pc EXCEPT ![t] = "idle"]
    /\ k_out' = [k_out EXCEPT ![t] = how]
    /\ UNCHANGED k_calls

\* a thread calls m.lock()
KLock(t, m) ==
    /\ k_pc[t] = "idle"
    /\ k_pc' = [k_pc EXCEPT ![t] = "lock_check"]
    /\ k_m' = [k_m EXCEPT ![t] = m]
    /\ KBegin
    /\ UNCHANGED <<k_owner, k_prev, k_this, k_held, k_out>>

\* a thread calls m.try_lock()
KTryLock(t, m) ==
    /\ k_pc[t] = "idle"
    /\ k_pc' = [k_pc EXCEPT ![t] = "try_check"]
    /\ k_m' = [k_m EXCEPT ![t] = m]
    /\ KBegin
    /\ UNCHANGED <<k_owner, k_prev, k_this, k_held, k_out>>

\* a thread calls m.unlock() on a mutex it has locked
KUnlock(t, m) ==
    /\ k_pc[t] = "idle"
    /\ m \in KRange(k_held[t])
    /\ k_pc' = [k_pc EXCEPT ![t] = "unlock_restore"]
    /\ k_m' = [k_m EXCEPT ![t] = m]
    /\ KBegin
    /\ UNCHANGED <<k_owner, k_prev, k_this, k_held, k_out>>

\* the acquisition is given up: nothing of the mutex or the thread changes
KRejectedUpdates(t, how) ==
    /\ KEnd(t, how)
    /\ k_this' = [k_this EXCEPT ![t] = hierarchy_value[k_m[t]]]
    /\ UNCHANGED <<k_owner, k_prev, k_m, k_held>>
KRejected(t, how) ==
    /\ KEnd(t, how)
    /\ UNCHANGED <<k_owner, k_prev, k_this, k_m, k_held>>

\* lock() and try_lock(): check_for_hierarchy_violation()
KCheck(t) ==
    /\ k_pc[t] \in {"lock_check", "try_check"}
    /\ IF HViolation(k_this[t], hierarchy_value[k_m[t]])
          THEN KRejected(t, "logic_error")
          ELSE /\ k_pc' = [k_pc EXCEPT ![t] =
                              IF k_pc[t] = "lock_check" THEN "lock_wait"
                                                        ELSE "try_lock"]
               /\ UNCHANGED <<k_owner, k_prev, k_this, k_m, k_held, k_out, k_calls>>

\* lock(): internal_mutex.lock()
KInternalLock(t) ==
    /\ k_pc[t] = "lock_wait"
    /\ k_owner[k_m[t]] = NoThread
    /\ k_owner' = [k_owner EXCEPT ![k_m[t]] = t]
    /\ k_pc' = [k_pc EXCEPT ![t] = "lock_update"]
    /\ UNCHANGED <<k_prev, k_this, k_m, k_held, k_out, k_calls>>

\* lock(): internal_mutex.lock() by the thread that owns internal_mutex is
\* undefined: the thread blocks for ever (no step), or std::system_error
\* (resource_deadlock_would_occur) leaves lock()
KInternalRelock(t) ==
    /\ k_pc[t] = "lock_wait"
    /\ k_owner[k_m[t]] = t
    /\ KRejected(t, "system_error")

\* try_lock(): internal_mutex.try_lock()
KInternalTryLock(t) ==
    /\ k_pc[t] = "try_lock"
    /\ IF k_owner[k_m[t]] = NoThread
          THEN /\ k_owner' = [k_owner EXCEPT ![k_m[t]] = t]
               /\ k_pc' = [k_pc EXCEPT ![t] = "try_update"]
               /\ UNCHANGED <<k_prev, k_this, k_m, k_held, k_out, k_calls>>
          ELSE KRejected(t, "false")

\* lock() and try_lock(): update_hierarchy_value()
KUpdate(t) ==
    /\ k_pc[t] \in {"lock_update", "try_update"}
    /\ k_prev' = [k_prev EXCEPT ![k_m[t]] = k_this[t]]
    /\ k_this' = [k_this EXCEPT ![t] = hierarchy_value[k_m[t]]]
    /\ k_held' = [k_held EXCEPT ![t] = Append(k_held[t], k_m[t])]
    /\ KEnd(t, IF k_pc[t] = "lock_update" THEN "locked" ELSE "true")
    /\ UNCHANGED <<k_owner, k_m>>

\* unlock(): this_thread_hierarchy_value=previous_hierarchy_value
KRestore(t) ==
    /\ k_pc[t] = "unlock_restore"
    /\ k_this' = [k_this EXCEPT ![t] = k_prev[k_m[t]]]
    /\ k_pc' = [k_pc EXCEPT ![t] = "unlock_release"]
    /\ UNCHANGED <<k_owner, k_prev, k_m, k_held, k_out, k_calls>>

\* unlock(): internal_mutex.unlock()
KInternalUnlock(t) ==
    /\ k_pc[t] = "unlock_release"
    /\ k_owner' = [k_owner EXCEPT ![k_m[t]] = NoThread]
    /\ k_held' = [k_held EXCEPT ![t] = KWithout(k_held[t], k_m[t])]
    /\ KEnd(t, "unlocked")
    /\ UNCHANGED <<k_prev, k_this, k_m>>

StepRank(t) ==
    \/ \E m \in HMutexes : KLock(t, m)
    \/ \E m \in HMutexes : KTryLock(t, m)
    \/ \E m \in HMutexes : KUnlock(t, m)
    \/ KCheck(t)
    \/ KInternalLock(t)
    \/ KInternalRelock(t)
    \/ KInternalTryLock(t)
    \/ KUpdate(t)
    \/ KRestore(t)
    \/ KInternalUnlock(t)

NextRank ==
    /\ \E t \in RankThreads : StepRank(t)
    /\ UNCHANGED <<cqVars, fqVars, listVars, stackVars, swapVars, hierVars, demoVars, guardVars, makeVars, swap2Vars, wrapVars, ulockVars, thrVars>>

---------------------------------------------------------------------------
(***************************************************************************)
(* data_wrapper::process_data, malicious_function and foo.                 *)
(***************************************************************************)
WrapThreads == 1..NWrapThreads

\* some_data* unprotected is a global without initialiser: null
InitWrap ==
    /\ w_m = NoThread
    /\ w_unprotected = "null"
    /\ w_pc = [t \in WrapThreads |-> "idle"]

\* a thread calls foo()
WFoo(t) ==
    /\ w_pc[t] = "idle"
    /\ w_pc' = [w_pc EXCEPT ![t] = "pd_lock"]
    /\ UNCHANGED <<w_m, w_unprotected>>

\* process_data: std::lock_guard<std::mutex> l(m)
WLock(t) ==
    /\ w_pc[t] = "pd_lock"
    /\ w_m = NoThread
    /\ w_m' = t
    /\ w_pc' = [w_pc EXCEPT ![t] = "pd_func"]
    /\ UNCHANGED w_unprotected

\* malicious_function: unprotected=&protected_data
MaliciousKeeps(protected_data) == w_unprotected
malicious_function(protected_data) == protected_data

\* process_data: func(data)
WFunc(t) ==
    /\ w_pc[t] = "pd_func"
    /\ w_unprotected' = malicious_function("x.data")
    /\ w_pc' = [w_pc EXCEPT ![t] = "pd_unlock"]
    /\ UNCHANGED w_m

\* process_data: the lock_guard l is destroyed
WUnlock(t) ==
    /\ w_pc[t] = "pd_unlock"
    /\ w_m' = NoThread
    /\ w_pc' = [w_pc EXCEPT ![t] = "use"]
    /\ UNCHANGED w_unprotected

\* foo: unprotected->do_something() begins; do_something is declared only,
\* a member function of some_data working on the object it is called on
WUse(t) ==
    /\ w_pc[t] = "use"
    /\ w_unprotected # "null"
    /\ w_pc' = [w_pc EXCEPT ![t] = "using"]
    /\ UNCHANGED <<w_m, w_unprotected>>

\* foo: do_something() returns, and foo() with it
WReturn(t) ==
    /\ w_pc[t] = "using"
    /\ w_pc' = [w_pc EXCEPT ![t] = "idle"]
    /\ UNCHANGED <<w_m, w_unprotected>>

StepWrap(t) ==
    \/ WFoo(t)
    \/ WLock(t)
    \/ WFunc(t)
    \/ WUnlock(t)
    \/ WUse(t)
    \/ WReturn(t)

NextWrap ==
    /\ \E t \in WrapThreads : StepWrap(t)
    /\ UNCHANGED <<cqVars, fqVars, listVars, stackVars, swapVars, hierVars, demoVars, guardVars, makeVars, swap2Vars, rankVars, ulockVars, thrVars>>

---------------------------------------------------------------------------
(***************************************************************************)
(* get_lock and process_data.                                              *)
(***************************************************************************)
LockThreads == 1..NLockThreads

\* the unique_lock objects of one call: lk of get_lock, the returned object
\* and lk of process_data
ULocks == {"get_lock::lk", "returned", "process_data::lk"}

InitULock ==
    /\ u_mutex = NoThread
    /\ u_pc = [t \in LockThreads |-> "idle"]
    /\ u_live = [t \in LockThreads |-> {}]
    /\ u_owns = [t \in LockThreads |-> [i \in ULocks |-> FALSE]]
    /\ u_released = [t \in LockThreads |-> 0]
    /\ u_out = [t \in LockThreads |-> "none"]

\* a thread calls process_data(), which calls get_lock()
UCall(t) ==
    /\ u_pc[t] = "idle"
    /\ u_pc' = [u_pc EXCEPT ![t] = "gl_lock"]
    /\ u_released' = [u_released EXCEPT ![t] = 0]
    /\ u_out' = [u_out EXCEPT ![t] = "none"]
    /\ UNCHANGED <<u_mutex, u_live, u_owns>>

\* get_lock: std::unique_lock<std::mutex> lk(some_mutex)
UGetLock(t) ==
    /\ u_pc[t] = "gl_lock"
    /\ u_mutex = NoThread
    /\ u_mutex' = t
    /\ u_live' = [u_live EXCEPT ![t] = {"get_lock::lk"}]
    /\ u_owns' = [u_owns EXCEPT ![t]["get_lock::lk"] = TRUE]
    /\ u_pc' = [u_pc EXCEPT ![t] = "gl_prepare"]
    /\ UNCHANGED <<u_released, u_out>>

\* get_lock: prepare_data(), which has no declaration in the source
UPrepare(t) ==
    /\ u_pc[t] = "gl_prepare"
    /\ u_pc' = [u_pc EXCEPT ![t] = "gl_return"]
    /\ UNCHANGED <<u_mutex, u_live, u_owns, u_released, u_out>>

\* unique_lock(unique_lock&&): the new object takes the owns flag, the
\* source is left owning nothing
UMoveKeeps(owns, from, to) == [owns EXCEPT ![to] = owns[from]]
UMove(owns, from, to) == [owns EXCEPT ![to] = owns[from], ![from] = FALSE]

\* the object "from" initialises the object "to": by the move constructor,
\* after which both are live, or with the copy elided, "to" being the same
\* object under its new name
UTransfer(t, from, to, elided) ==
    /\ u_owns' = [u_owns EXCEPT ![t] = UMove(u_owns[t], from, to)]
    /\ u_live' = [u_live EXCEPT ![t] =
                     IF elided THEN (u_live[t] \ {from}) \cup {to}
                               ELSE u_live[t] \cup {to}]

\* ~unique_lock: unlocks the mutex if the object owns it
UDestroy(t, i) ==
    /\ u_live' = [u_live EXCEPT ![t] = u_live[t] \ {i}]
    /\ IF u_owns[t][i]
          THEN /\ u_mutex' = NoThread
               /\ u_owns' = [u_owns EXCEPT ![t][i] = FALSE]
               /\ u_released' = [u_released EXCEPT ![t] = u_released[t] + 1]
          ELSE UNCHANGED <<u_mutex, u_owns, u_released>>

\* get_lock: return lk; the compiler may elide the move
UReturn(t) ==
    /\ u_pc[t] = "gl_return"
    /\ \E elided \in BOOLEAN :
          /\ UTransfer(t, "get_lock::lk", "returned", elided)
          /\ u_pc' = [u_pc EXCEPT ![t] =
                         IF elided THEN "pd_init" ELSE "gl_destroy"]
    /\ UNCHANGED <<u_mutex, u_released, u_out>>

\* get_lock: lk goes out of scope
UDestroyLocal(t) ==
    /\ u_pc[t] = "gl_destroy"
    /\ UDestroy(t, "get_lock::lk")
    /\ u_pc' = [u_pc EXCEPT ![t] = "pd_init"]
    /\ UNCHANGED u_out

\* process_data: std::unique_lock<std::mutex> lk(get_lock()); the compiler
\* may elide the move
UInit(t) ==
    /\ u_pc[t] = "pd_init"
    /\ \E elided \in BOOLEAN :
          /\ UTransfer(t, "returned", "process_data::lk", elided)
          /\ u_pc' = [u_pc EXCEPT ![t] =
                         IF elided THEN "pd_do" ELSE "pd_temp"]
    /\ UNCHANGED <<u_mutex, u_released, u_out>>

\* process_data: the temporary returned by get_lock() is destroyed
UDestroyTemp(t) ==
    /\ u_pc[t] = "pd_temp"
    /\ UDestroy(t, "returned")
    /\ u_pc' = [u_pc EXCEPT ![t] = "pd_do"]
    /\ UNCHANGED u_out

\* process_data: do_something(), which has no declaration in the source
UDoSomething(t) ==
    /\ u_pc[t] = "pd_do"
    /\ u_pc' = [u_pc EXCEPT ![t] = "pd_exit"]
    /\ UNCHANGED <<u_mutex, u_live, u_owns, u_released, u_out>>

\* process_data: lk goes out of scope, process_data returns
UExit(t) ==
    /\ u_pc[t] = "pd_exit"
    /\ UDestroy(t, "process_data::lk")
    /\ u_pc' = [u_pc EXCEPT ![t] = "idle"]
    /\ u_out' = [u_out EXCEPT ![t] = "done"]

StepULock(t) ==
    \/ UCall(t)
    \/ UGetLock(t)
    \/ UPrepare(t)
    \/ UReturn(t)
    \/ UDestroyLocal(t)
    \/ UInit(t)
    \/ UDestroyTemp(t)
    \/ UDoSomething(t)
    \/ UExit(t)

NextULock ==
    /\ \E t \in LockThreads : StepULock(t)
    /\ UNCHANGED <<cqVars, fqVars, listVars, stackVars, swapVars, hierVars, demoVars, guardVars, makeVars, swap2Vars, rankVars, wrapVars, thrVars>>

---------------------------------------------------------------------------
(***************************************************************************)
(* not_oops, foo_move and main of the run-in-background demo; f, f2 and    *)
(* scoped_thread of the ownership-transfer demo.                           *)
(***************************************************************************)
\* the std::thread objects: the locals, a temporary or by-value parameter,
\* and the member t of scoped_thread
THandles == {"t", "t1", "t2", "t3", "tmp", "scoped_thread::t"}

\* the threads a function starts: at most two
TIds == {1, 2}

\* the statements of the functions of the run-in-background demo
BodyRunBackground(p) ==
    CASE p = "not_oops" -> << <<"spawn", "t">>, <<"detach", "t">> >>
      [] p = "foo_move" -> << <<"spawn", "t">> >>
      [] p = "main" -> << <<"spawn", "t">>, <<"join", "t">> >>

\* the statements of the functions of the ownership-transfer demo; f2 with
\* its std::thread argument, and f2 given a std::thread that owns no thread
BodyTransfer(p) ==
    CASE p = "f" ->
           << <<"spawn", "t1">>, <<"move", "t2", "t1">>,
              <<"spawn", "tmp">>, <<"assign", "t1", "tmp">>,
              <<"destroy", "tmp">>,
              <<"default", "t3">>, <<"assign", "t3", "t2">>,
              <<"assign", "t1", "t3">> >>
      [] p = "f2" ->
           << <<"spawn", "tmp">>, <<"scoped", "tmp">>, <<"destroy", "tmp">>,
              <<"call", "do_something_in_current_state">> >>
      [] p = "f2_no_thread" ->
           << <<"default", "tmp">>, <<"scoped", "tmp">>, <<"destroy", "tmp">>,
              <<"call", "do_something_in_current_state">> >>

TPrograms == {"not_oops", "foo_move", "main", "f", "f2", "f2_no_thread"}

Body(p) ==
    IF p \in {"not_oops", "foo_move", "main"} THEN BodyRunBackground(p)
                                              ELSE BodyTransfer(p)

InitThr ==
    /\ t_prog = "none"
    /\ t_pc = "none"
    /\ t_ip = 0
    /\ t_live = << >>
    /\ t_own = [h \in THandles |-> 0]
    /\ t_thr = [i \in TIds |-> "none"]
    /\ t_work = [i \in TIds |-> 0]
    /\ t_n = 0
    /\ t_joins = [i \in TIds |-> 0]
    /\ t_exc = "none"
    /\ t_out = "none"

\* the statement the calling thread is at
TOp == Body(t_prog)[t_ip]

\* the function of thread i has returned
TFinished(i) == t_work[i] = MaxWorkSteps

\* the calling thread goes on to the next statement, or to the end of the
\* scope after the last one
TNext ==
    IF t_ip = Len(Body(t_prog))
       THEN t_pc' = "exit" /\ UNCHANGED t_ip
       ELSE t_ip' = t_ip + 1 /\ UNCHANGED t_pc

\* std::terminate()
TTerminate ==
    /\ t_pc' = "done"
    /\ t_out' = "terminate"
    /\ UNCHANGED <<t_prog, t_ip, t_live, t_own, t_thr, t_work, t_n, t_joins,
                   t_exc>>

\* an exception leaves the statement: the scope is unwound
TRaise(e) ==
    /\ t_pc' = "unwind"
    /\ t_exc' = e
    /\ UNCHANGED <<t_prog, t_ip, t_thr, t_work, t_n, t_joins, t_out>>

\* one of the functions is called
TStart(p) ==
    /\ t_pc = "none"
    /\ t_prog' = p
    /\ t_pc' = "run"
    /\ t_ip' = 1
    /\ UNCHANGED <<t_live, t_own, t_thr, t_work, t_n, t_joins, t_exc, t_out>>

\* std::thread h(function, arguments...): a new thread is started
TSpawn ==
    /\ t_pc = "run" /\ TOp[1] = "spawn"
    /\ t_n' = t_n + 1
    /\ t_thr' = [t_thr EXCEPT ![t_n + 1] = "joinable"]
    /\ t_own' = [t_own EXCEPT ![TOp[2]] = t_n + 1]
    /\ t_live' = Append(t_live, TOp[2])
    /\ TNext
    /\ UNCHANGED <<t_prog, t_work, t_joins, t_exc, t_out>>

\* std::thread h;
TDefault ==
    /\ t_pc = "run" /\ TOp[1] = "default"
    /\ t_live' = Append(t_live, TOp[2])
    /\ TNext
    /\ UNCHANGED <<t_prog, t_own, t_thr, t_work, t_n, t_joins, t_exc, t_out>>

\* std::thread to = std::move(from);
TMove ==
    /\ t_pc = "run" /\ TOp[1] = "move"
    /\ t_own' = [t_own EXCEPT ![TOp[2]] = t_own[TOp[3]], ![TOp[3]] = 0]
    /\ t_live' = Append(t_live, TOp[2])
    /\ TNext
    /\ UNCHANGED <<t_prog, t_thr, t_work, t_n, t_joins, t_exc, t_out>>

\* to = std::move(from): std::terminate() if to owns a thread
TAssign ==
    /\ t_pc = "run" /\ TOp[1] = "assign"
    /\ IF t_own[TOp[2]] # 0
          THEN TTerminate
          ELSE /\ t_own' = [t_own EXCEPT ![TOp[2]] = t_own[TOp[3]],
                                         ![TOp[3]] = 0]
               /\ TNext
               /\ UNCHANGED <<t_prog, t_live, t_thr, t_work, t_n, t_joins,
                              t_exc, t_out>>

\* ~thread of the object h: std::terminate() if it owns a thread
TThreadDtor(h) ==
    IF t_own[h] # 0
       THEN TTerminate
       ELSE /\ t_live' = SelectSeq(t_live, LAMBDA x : x # h)
            /\ UNCHANGED <<t_prog, t_own, t_thr, t_work, t_n, t_joins, t_exc,
                           t_out>>

\* the temporary or by-value parameter is destroyed at the end of the
\* statement
TDestroyTemp ==
    /\ t_pc = "run" /\ TOp[1] = "destroy"
    /\ TThreadDtor(TOp[2])
    /\ t_own[TOp[2]] = 0 => TNext

\* h.join(): waits for the function of the thread to return
TJoinThread(h) ==
    /\ TFinished(t_own[h])
    /\ t_thr' = [t_thr EXCEPT ![t_own[h]] = "joined"]
    /\ t_joins' = [t_joins EXCEPT ![t_own[h]] = t_joins[t_own[h]] + 1]
    /\ t_own' = [t_own EXCEPT ![h] = 0]

\* t.join(); in main
TJoin ==
    /\ t_pc = "run" /\ TOp[1] = "join"
    /\ TJoinThread(TOp[2])
    /\ TNext
    /\ UNCHANGED <<t_prog, t_live, t_work, t_n, t_exc, t_out>>

\* t.detach(); in not_oops
TDetach ==
    /\ t_pc = "run" /\ TOp[1] = "detach"
    /\ t_thr' = [t_thr EXCEPT ![t_own[TOp[2]]] = "detached"]
    /\ t_own' = [t_own EXCEPT ![TOp[2]] = 0]
    /\ TNext
    /\ UNCHANGED <<t_prog, t_live, t_work, t_n, t_joins, t_exc, t_out>>

\* do_something_in_current_state(), declared nowhere: it returns or throws
TCall ==
    /\ t_pc = "run" /\ TOp[1] = "call"
    /\ \/ /\ TNext
          /\ UNCHANGED <<t_prog, t_thr, t_work, t_n, t_joins, t_exc, t_out>>
       \/ /\ TRaise("exception")
          /\ UNCHANGED t_ip
    /\ UNCHANGED <<t_live, t_own>>

\* scoped_thread(std::thread t_): t(std::move(t_)), then
\* if(!t.joinable()) throw std::logic_error; the member t of the object
\* that was not constructed owns no thread and is destroyed
ScopedCtorKeepsSource(from) ==
    /\ t_own' = [t_own EXCEPT !["scoped_thread::t"] = t_own[from]]
    /\ IF t_own[from] = 0
          THEN /\ TRaise("logic_error")
               /\ UNCHANGED <<t_live, t_ip>>
          ELSE /\ t_live' = Append(t_live, "scoped_thread::t")
               /\ TNext
               /\ UNCHANGED <<t_prog, t_thr, t_work, t_n, t_joins, t_exc,
                              t_out>>
ScopedCtor(from) ==
    /\ t_own' = [t_own EXCEPT !["scoped_thread::t"] = t_own[from],
                              ![from] = 0]
    /\ IF t_own[from] = 0
          THEN /\ TRaise("logic_error")
               /\ UNCHANGED <<t_live, t_ip>>
          ELSE /\ t_live' = Append(t_live, "scoped_thread::t")
               /\ TNext
               /\ UNCHANGED <<t_prog, t_thr, t_work, t_n, t_joins, t_exc,
                              t_out>>

\* scoped_thread t(std::thread(...)); in f2
TScoped ==
    /\ t_pc = "run" /\ TOp[1] = "scoped"
    /\ ScopedCtor(TOp[2])

\* ~scoped_thread: t.join(), and the member t, which owns nothing now, is
\* destroyed
ScopedDtor ==
    /\ TJoinThread("scoped_thread::t")
    /\ t_live' = SelectSeq(t_live, LAMBDA x : x # "scoped_thread::t")
    /\ UNCHANGED <<t_prog, t_pc, t_ip, t_work, t_n, t_exc, t_out>>

\* the youngest live object of the function
TTop == t_live[Len(t_live)]

\* the scope ends or is unwound: the youngest live object is destroyed
TDestroyTop ==
    /\ t_pc \in {"exit", "unwind"}
    /\ t_live # << >>
    /\ IF TTop = "scoped_thread::t"
          THEN ScopedDtor
          ELSE TThreadDtor(TTop) /\ (t_own[TTop] = 0 => UNCHANGED <<t_pc, t_ip>>)

\* no object is left: the function returns, or the exception leaves it
TLeave ==
    /\ t_pc \in {"exit", "unwind"}
    /\ t_live = << >>
    /\ t_pc' = "done"
    /\ t_out' = IF t_pc = "exit" THEN "returned" ELSE t_exc
    /\ UNCHANGED <<t_prog, t_ip, t_live, t_own, t_thr, t_work, t_n, t_joins,
                   t_exc>>

\* a started thread runs a step of its function, unless the process has
\* been terminated
TWork(i) ==
    /\ t_thr[i] \in {"joinable", "detached"}
    /\ t_out # "terminate"
    /\ t_work[i] < MaxWorkSteps
    /\ t_work' = [t_work EXCEPT ![i] = t_work[i] + 1]
    /\ UNCHANGED <<t_prog, t_pc, t_ip, t_live, t_own, t_thr, t_n, t_joins,
                   t_exc, t_out>>

StepThr ==
    \/ \E p \in TPrograms : TStart(p)
    \/ TSpawn
    \/ TDefault
    \/ TMove
    \/ TAssign
    \/ TDestroyTemp
    \/ TJoin
    \/ TDetach
    \/ TCall
    \/ TScoped
    \/ TDestroyTop
    \/ TLeave
    \/ \E i \in TIds : TWork(i)

NextThr ==
    /\ StepThr
    /\ UNCHANGED <<cqVars, fqVars, listVars, stackVars, swapVars, hierVars, demoVars, guardVars, makeVars, swap2Vars, rankVars, wrapVars, ulockVars>>

Init == InitCQ /\ InitFQ /\ InitList /\ InitStack /\ InitSwap /\ InitHier /\ InitDemo /\ InitGuard /\ InitMake /\ InitSwap2 /\ InitRank /\ InitWrap /\ InitULock /\ InitThr

SpecCQ == Init /\ [][NextCQ]_vars

(***************************************************************************)
(* The coarse-grained queue with one inserting thread and the other        *)
(* threads removing through wait_and_pop only, no more often than items    *)
(* are pushed.  The inserting thread does push MaxPush items; the          *)
(* scheduler is fair: a thread that can take a step does, and a thread     *)
(* waiting for mut gets it if it is free again and again.  Nothing forces  *)
(* a call of wait_and_pop or a spurious wake-up.                           *)
(***************************************************************************)
Producer == NThreads
Consumers == Threads \ {Producer}

\* the wait_and_pop calls begun so far
WaitCalls ==
    Len(cq_popped)
    + Cardinality({u \in Threads :
                      cq_pc[u] \in {"wp_check", "wp_wait", "wp_relock", "wp_take"}})

ProducerStep ==
    \/ \E v \in Values : CallPush(Producer, v)
    \/ PushLock(Producer)
    \/ PushAppend(Producer)
    \/ PushNotify(Producer)
    \/ PushUnlock(Producer)

ConsumerStep(t) ==
    \/ WaitCalls < MaxPush /\ \E o \in Overloads : WpLock(t, o)
    \/ WpCheck(t)
    \/ SpuriousWake(t)
    \/ WpRelock(t)
    \/ WpTake(t)
    \/ WpUnlock(t)

NextCQLive ==
    /\ ProducerStep \/ \E t \in Consumers : ConsumerStep(t)
    /\ UNCHANGED <<fqVars, listVars, stackVars, swapVars, hierVars, demoVars, guardVars, makeVars, swap2Vars, rankVars, wrapVars, ulockVars, thrVars>>

FairCQ ==
    /\ WF_cqVars(\E v \in Values : CallPush(Producer, v))
    /\ SF_cqVars(PushLock(Producer))
    /\ WF_cqVars(PushAppend(Producer))
    /\ WF_cqVars(PushNotify(Producer))
    /\ WF_cqVars(PushUnlock(Producer))
    /\ \A t \in Consumers :
        /\ WF_cqVars(WpCheck(t))
        /\ SF_cqVars(WpRelock(t))
        /\ WF_cqVars(WpTake(t))
        /\ WF_cqVars(WpUnlock(t))

SpecCQLive == Init /\ [][NextCQLive]_vars /\ FairCQ

SpecFQ == Init /\ [][NextFQ]_vars

\* threadsafe_list used by one thread
SpecListSeq == Init /\ [][NextListSeq]_vars

\* threadsafe_list used by NListThreads threads
SpecList == Init /\ [][NextList]_vars

\* the same under a fair scheduler
SpecListLive == Init /\ [][NextList]_vars /\ FairList

\* threadsafe_stack used by one thread
SpecStackSeq == Init /\ [][NextStackSeq]_vars

\* threadsafe_stack used by NStackThreads threads
SpecStack == Init /\ [][NextStack]_vars

\* swap called by NSwapThreads threads
SpecSwap == Init /\ [][NextSwap]_vars

\* the same under a fair scheduler
SpecSwapLive == Init /\ [][NextSwap]_vars /\ FairSwap

\* both versions of swap, run side by side
SpecSwapBoth == Init /\ [][NextSwapBoth]_vars

\* thread_a and thread_b run by NHierThreads threads
SpecHier == Init /\ [][NextHier]_vars

\* the same, with every thread inside a function going on
SpecHierLive == Init /\ [][NextHier]_vars /\ FairHier

\* lock(), try_lock() and unlock() of hierarchical_mutex called in any
\* sequence, MaxRankCalls calls in all
SpecRank == Init /\ [][NextRank]_vars

\* foo() called by NWrapThreads threads
SpecWrap == Init /\ [][NextWrap]_vars

\* process_data() of the unique_lock example called by NLockThreads threads
SpecULock == Init /\ [][NextULock]_vars

\* one of the functions that start threads is run
SpecThr == Init /\ [][NextThr]_vars

\* the demonstration program of chapter-6.cpp
SpecDemo == Init /\ [][NextDemo]_vars

\* f() with its thread_guard
SpecGuard == Init /\ [][NextGuard]_vars

\* runs of make
SpecMake == Init /\ [][NextMake]_vars

---------------------------------------------------------------------------
Range(s) == {s[i] : i \in 1..Len(s)}

\* C1: the coarse-grained queue is first-in first-out: the k-th removal yields
\* the k-th pushed item, for every k; in particular N push calls followed by N
\* wait_and_pop calls on a single thread return the items in insertion order.
C1_Fifo ==
    /\ Len(cq_popped) <= Len(cq_pushed)
    /\ \A k \in 1..Len(cq_popped) : cq_popped[k] = cq_pushed[k]

\* a single thread has pushed MaxPush items (2 then 1 ...) and then removed all
\* of them, the last one through wait_and_pop
C1_Witness ==
    /\ cq_callers = {1}
    /\ Len(cq_pushed) = MaxPush
    /\ cq_pushed[1] = 2 /\ cq_pushed[2] = 1
    /\ cq_popped = cq_pushed
    /\ cq_pc[1] = "wp_unlock"
    /\ cq_res[1] = cq_pushed[MaxPush]

\* C2: no lost wake-up: under fair scheduling, with as many pushes as
\* wait_and_pop calls and no other removers, every thread suspended in
\* wait_and_pop eventually returns, and it returns with a pushed item.
C2_NoLostWakeup ==
    \A t \in Consumers :
        /\ (cq_pc[t] = "wp_wait") ~>
              (cq_pc[t] = "wp_unlock" /\ cq_res[t] \in Range(cq_pushed))
        /\ (cq_pc[t] = "wp_unlock") ~> (cq_pc[t] = "idle")

\* two threads were suspended in wait_and_pop on the empty queue, the pushes
\* came later, and both have been woken
C2_Witness ==
    /\ cq_pc[1] = "wp_relock" /\ cq_pc[2] = "wp_relock"
    /\ cq_popped = <<>>
    /\ Len(cq_pushed) = 2
    /\ data_cond = {}

\* C3: wait_and_pop (both overloads) reads and removes the front element only
\* in a state where data_queue is non-empty and the caller holds mut.
C3_PopOnlyNonEmptyLocked ==
    /\ ~cq_ub
    /\ \A t \in Threads :
          cq_pc[t] = "wp_take" => (data_queue # <<>> /\ mut = t)

\* a thread is about to take the front element while another waiter, woken
\* earlier, and a pusher are waiting for mut
C3_Witness ==
    \E t, u, w \in Threads :
        /\ cq_pc[t] = "wp_take" /\ cq_ovl[t] = "ref"
        /\ cq_pc[u] = "wp_relock" /\ cq_ovl[u] = "ptr"
        /\ cq_pc[w] = "push_lock"

---------------------------------------------------------------------------
\* no thread is inside push or try_pop of the fine-grained queue
FqQuiescent == \A t \in FqThreads : fq_pc[t] = "idle"

\* C4: a newly constructed fine-grained queue has head equal to tail and
\* try_pop returns an empty result; after one push head and tail differ and
\* one try_pop returns the pushed value, after which head equals tail again and
\* a further try_pop returns empty.  In general: between calls head equals tail
\* exactly when as many values were returned as were pushed, and a try_pop of a
\* thread that uses the queue alone returns empty exactly then and the oldest
\* value not yet returned otherwise.
C4_EmptyAtStartAndAfterPop ==
    /\ FqQuiescent => (head = tail <=> Len(fq_popped) = Len(fq_pushed))
    /\ \A t \in FqThreads :
          (fq_callers = {t} /\ fq_pc[t] = "pop_return") =>
              FqResult(t) = (IF Len(fq_popped) = Len(fq_pushed) THEN NoVal
                             ELSE fq_pushed[Len(fq_popped) + 1])

\* one thread has pushed one value, a try_pop has returned it, and its next
\* try_pop is returning the empty result from a queue with head equal to tail
C4_Witness ==
    /\ fq_callers = {1}
    /\ fq_pushed = <<2>>
    /\ fq_popped = <<2>>
    /\ fq_pc[1] = "pop_return"
    /\ FqResult(1) = NoVal
    /\ head = tail

---------------------------------------------------------------------------
\* C5: push_front of v1..vn by a single thread yields a for_each traversal
\* that visits each data node exactly once, front to back, in the order
\* vn..v1 (7, 9, 10 gives 10, 9, 7); the head sentinel is never passed to the
\* action.
C5_PushFrontOrder ==
    \A t \in ListThreads :
        (l_pc[t] = "exit" /\ l_op[t] = "for_each") =>
            /\ l_visited[t] = ChainNodes
            /\ HeadNode \notin Range(l_visited[t])
            /\ l_removed = 0 =>
                  [i \in 1..Len(l_visited[t]) |-> l_data[l_visited[t][i]]]
                      = Reverse(l_pushed)

\* 7, 9, 10 were inserted in that order and for_each has visited 10, 9, 7
C5_Witness ==
    /\ l_pushed = <<7, 9, 10>>
    /\ l_removed = 0
    /\ l_pc[1] = "exit" /\ l_op[1] = "for_each"
    /\ Len(l_visited[1]) = 3
    /\ l_data[l_visited[1][1]] = 10
    /\ l_data[l_visited[1][2]] = 9
    /\ l_data[l_visited[1][3]] = 7

\* C6: remove_if(p) removes exactly the nodes whose data satisfies p and keeps
\* the other nodes in their relative order: with the always-true predicate
\* (also the destructor's) the list becomes empty, with a predicate matching
\* one value only the nodes holding that value disappear.
C6_RemoveIfExact ==
    \A t \in ListThreads :
        (l_pc[t] = "exit" /\ l_op[t] = "remove_if") =>
            /\ ListContents = SelectSeq(l_before[t], LAMBDA v : v \notin l_pred[t])
            /\ l_nodes = {HeadNode} \cup Range(ChainNodes)
            /\ l_pred[t] = ListValues =>
                  (l_next[HeadNode] = NoNode /\ l_nodes = {HeadNode})

\* remove_if with the predicate "equals 9" has turned 10, 9, 7 into 10, 7
C6_Witness ==
    /\ l_pc[1] = "exit" /\ l_op[1] = "remove_if"
    /\ l_pred[1] = {9}
    /\ l_before[1] = <<10, 9, 7>>
    /\ ListContents = <<10, 7>>


(***************************************************************************)
(* C7: a pop (either overload) on an empty threadsafe_stack raises         *)
(* empty_stack; the emptiness check comes before any removal, so a pop     *)
(* gets to top() and pop() of the std::stack only when it is non-empty;    *)
(* the failing pop has taken nothing and leaves the stack empty and the    *)
(* mutex released, so that the next pop fails in the same way.             *)
(***************************************************************************)
C7_EmptyPopRaises ==
    \A t \in StackThreads :
        /\ (s_pc[t] = "pop_throw" /\ s_exc[t] = "empty_stack") =>
              /\ s_before[t] = << >>
              /\ s_data = << >>
              /\ s_res[t] = NoVal
        /\ (s_pc[t] \in {"pop_top", "pop_remove", "pop_unlock"}) =>
              s_before[t] # << >>
        /\ s_pc[t] = "pop_remove" => s_data # << >>
        /\ (s_pc[t] = "idle" /\ s_out[t] = "empty_stack") =>
              /\ s_data = << >>
              /\ s_m = NoThread

\* the second pop in a row on a newly constructed stack raises empty_stack
C7_Witness ==
    /\ s_pushed = << >>
    /\ s_out[1] = "empty_stack"
    /\ s_pc[1] = "pop_throw"
    /\ s_exc[1] = "empty_stack"
    /\ s_ovl[1] = "ref"

(***************************************************************************)
(* C8: threadsafe_stack is last-in-first-out.  A pop returns the value     *)
(* on top of the stack and makes the stack one element shorter, the rest   *)
(* unchanged; a push puts its value on top.  As long as no push follows a  *)
(* pop, the values popped are the values pushed last, in reverse order;    *)
(* after one push on an empty stack the pop returns that value and leaves  *)
(* the stack empty.                                                        *)
(***************************************************************************)
C8_Lifo ==
    /\ \A t \in StackThreads :
          /\ s_pc[t] = "pop_unlock" =>
                /\ s_before[t] = Append(s_data, s_res[t])
                /\ Len(s_data) = Len(s_before[t]) - 1
          /\ s_pc[t] = "push_unlock" => s_data = Append(s_before[t], s_arg[t])
          /\ (s_pc[t] = "pop_unlock" /\ Len(s_pushed) = 1 /\ s_popped = <<s_res[t]>>) =>
                (s_res[t] = s_pushed[1] /\ s_data = << >>)
    /\ ~s_mixed => s_data \o Reverse(s_popped) = s_pushed

\* three pushes, then the third pop has returned the value pushed first
C8_Witness ==
    /\ s_pc[1] = "pop_unlock"
    /\ Len(s_pushed) = 3
    /\ Len(s_popped) = 3
    /\ ~s_mixed
    /\ s_pushed[1] # s_pushed[3]
    /\ s_res[1] = s_pushed[1]

(***************************************************************************)
(* C9: concurrent calls swap(a,b), swap(b,a) and swap(a,a) never deadlock: *)
(* under a fair scheduler every call returns, and the thread then owns     *)
(* neither mutex; a call with twice the same instance never owns a mutex;  *)
(* and whenever calls are in progress, one of them can take a step.        *)
(***************************************************************************)
C9_SwapNeverDeadlocks ==
    /\ []((\E t \in SwapThreads : x_pc[t] # "idle") =>
             (\E t \in SwapThreads :
                 ENABLED (\/ SwCheck(t) \/ SwLockFirst(t) \/ SwTryOk(t)
                          \/ SwBackOff(t) \/ SwExchange(t) \/ SwUnlockB(t)
                          \/ SwUnlockA(t))))
    /\ \A t \in SwapThreads :
          (x_pc[t] # "idle") ~> (x_pc[t] = "idle" /\ Held(t) = {})
    /\ [](\A t \in SwapThreads :
             (x_pc[t] = "idle" \/ x_lhs[t] = x_rhs[t]) => Held(t) = {})

\* swap(a,b) owns a.m and swap(b,a) owns b.m, each about to try the other
\* mutex, while nobody else is in the way
C9_Witness ==
    /\ x_pc[1] = "try" /\ x_lhs[1] = "a" /\ x_rhs[1] = "b" /\ x_m["a"] = 1
    /\ x_pc[2] = "try" /\ x_lhs[2] = "b" /\ x_rhs[2] = "a" /\ x_m["b"] = 2

(***************************************************************************)
(* C10: a call of swap on two different instances exchanges the two        *)
(* some_detail members once, owning both mutexes before and after the      *)
(* exchange.  Whenever neither mutex is owned, as many exchanges have been *)
(* made as calls have returned, and the instances hold the two original    *)
(* values, exchanged iff the number of calls returned is odd.              *)
(***************************************************************************)
C10_SwapExchangesOnce ==
    /\ \A t \in SwapThreads :
          x_pc[t] \in {"locked", "unlock_b"} =>
              (x_m[x_lhs[t]] = t /\ x_m[x_rhs[t]] = t)
    /\ x_exch = x_done + Cardinality({t \in SwapThreads :
                                         x_pc[t] \in {"unlock_b", "unlock_a"}})
    /\ (\A o \in Objs : x_m[o] = NoThread) =>
          /\ x_exch = x_done
          /\ x_detail = IF x_done % 2 = 1
                           THEN SwapDetail(OrigDetail, "a", "b")
                           ELSE OrigDetail

\* two calls have returned, the values are back, a third call is starting
C10_Witness ==
    /\ x_done = 2
    /\ \A o \in Objs : x_m[o] = NoThread
    /\ x_detail = OrigDetail
    /\ \E t \in SwapThreads : x_pc[t] = "lock"


(***************************************************************************)
(* C11: a thread running thread_b gets the logic_error at the attempt to   *)
(* lock high_level_mutex, while it owns other_mutex and before it owns     *)
(* high_level_mutex, and thread_b never completes; a thread running        *)
(* thread_a locks high_level_mutex and then low_level_mutex and completes  *)
(* without an error.                                                       *)
(***************************************************************************)
C11_HierarchyCheck ==
    \A t \in HierThreads :
        /\ h_prog[t] = "thread_b" =>
              /\ h_owner["high_level_mutex"] # t
              /\ h_owner["low_level_mutex"] # t
              /\ h_ip[t] <= 2
              /\ h_exc[t] \in {"none", "high_level_mutex"}
              /\ (h_exc[t] # "none" /\ h_guards[t] # << >>) =>
                    (h_guards[t] = <<"other_mutex">> /\ h_owner["other_mutex"] = t)
        /\ h_prog[t] = "thread_a" =>
              /\ h_exc[t] = "none"
              /\ h_pc[t] \notin {"unwind", "unwind_unlock"}
        /\ h_out[t][1] = "thread_b" => h_out[t][2] = "logic_error"
        /\ h_out[t][1] = "thread_a" => h_out[t][2] = "completed"
        /\ h_pc[t] = "idle" => (h_this[t] = ULONG_MAX /\ h_guards[t] = << >>)

\* thread 1 has completed thread_a and is now unwinding thread_b after the
\* failed lock of high_level_mutex, which thread 2 owns inside thread_a
C11_Witness ==
    /\ h_out[1] = <<"thread_a", "completed">>
    /\ h_prog[1] = "thread_b"
    /\ h_pc[1] = "unwind"
    /\ h_exc[1] = "high_level_mutex"
    /\ h_owner["other_mutex"] = 1
    /\ h_prog[2] = "thread_a"
    /\ h_owner["high_level_mutex"] = 2
    /\ h_owner["low_level_mutex"] = 2


\* the numbers written with the given kind, in the order of writing
Written(kind) ==
    LET sel == SelectSeq(d_out, LAMBDA e : e[1] = kind)
    IN  [k \in 1..Len(sel) |-> sel[k][2]]

\* the kinds of what was written, in the order of writing
Kinds == [k \in 1..Len(d_out) |-> d_out[k][1]]

(***************************************************************************)
(* C12 as stated: for the vector 7, 9, 10 the running totals printed by    *)
(* reduce_list are 9, 16, 26.                                              *)
(***************************************************************************)
C12_Original ==
    (d_pc = "done" /\ d_a = DemoInput) => Written("total") = <<9, 16, 26>>

(***************************************************************************)
(* C12 as amended: for the vector 7, 9, 10 the running totals printed by   *)
(* reduce_list are 10, 19, 26, in that order, each one written right after *)
(* its fold step.                                                          *)
(***************************************************************************)
C12_RunningTotals ==
    /\ (d_pc = "done" /\ d_a = DemoInput) => Written("total") = <<10, 19, 26>>
    /\ d_pc = "rl_advance" => d_out[Len(d_out)] = <<"total", d_sum>>
    /\ d_pc = "done" => Len(Written("total")) = Len(d_a)

\* the program has run with 7, 9, 10 and has written three running totals
C12_Witness ==
    /\ d_pc = "done"
    /\ d_a = DemoInput
    /\ Len(Written("total")) = 3


(***************************************************************************)
(* C13: for the vector 7, 9, 10 reduce_list returns 26, and main writes    *)
(* that value as SUM.                                                      *)
(***************************************************************************)
C13_FinalSum ==
    d_a = DemoInput =>
        /\ d_pc = "main_values" => d_ret = 26
        /\ d_pc = "done" => (d_ret = 26 /\ Written("sum") = <<26>>)

\* main has written SUM: 26 for the vector 7, 9, 10
C13_Witness ==
    /\ d_pc = "done"
    /\ d_a = DemoInput
    /\ d_out[Len(d_out)] = <<"sum", 26>>

(***************************************************************************)
(* C14 as stated: main writes the three running totals first, then the     *)
(* line SUM: 26 and after it the values 7 9 10; nothing is written before  *)
(* the running totals.                                                     *)
(***************************************************************************)
C14_Original ==
    (d_pc = "done" /\ d_a = DemoInput) =>
        Kinds = <<"total", "total", "total", "sum", "value", "value", "value">>

(***************************************************************************)
(* C14 as amended: main writes the line HEAD IS AVAILABLE first, then the  *)
(* three running totals, then the values 7 9 10, each followed by a space, *)
(* and last, on the same line, SUM: 26.                                    *)
(***************************************************************************)
C14_OutputOrder ==
    (d_pc = "done" /\ d_a = DemoInput) =>
        /\ Kinds = <<"head", "total", "total", "total",
                     "value", "value", "value", "sum">>
        /\ Written("value") = DemoInput
        /\ Written("sum") = <<26>>

\* the whole output of the program for the vector 7, 9, 10
C14_Witness ==
    /\ d_pc = "done"
    /\ d_a = DemoInput
    /\ Len(d_out) = 8
    /\ d_out[1] = <<"head", 0>>


(***************************************************************************)
(* C15: the thread_guard of f() joins the thread of t exactly once on      *)
(* every way out of f(): when f returns or the exception of its body       *)
(* leaves it, the thread has finished all its iterations and has been      *)
(* joined once, never twice, and the std::thread destroyed was not         *)
(* joinable.                                                               *)
(***************************************************************************)
C15_GuardJoinsOnce ==
    /\ g_joins <= 1
    /\ g_pc = "thread_dtor" =>
          (g_joins = 1 /\ ~g_joinable /\ g_worker = "finished")
    /\ g_pc = "end" =>
          /\ g_out = (IF g_exc THEN "raised" ELSE "returned")
          /\ g_joins = 1
          /\ g_worker = "finished"
          /\ g_j = MaxWorkerIter

\* the body threw before its loop was over, and the thread was joined
C15_Witness ==
    /\ g_pc = "end"
    /\ g_out = "raised"
    /\ g_i < MaxMainIter
    /\ g_joins = 1


(***************************************************************************)
(* C16: after the default target has built hello, thread-wait and          *)
(* run-background, a run of the clean target leaves none of the three      *)
(* executables.                                                            *)
(***************************************************************************)
C16_CleanRemovesExecutables ==
    (m_last = <<"clean", "ok">> /\ m_prev = <<"all", "ok">>) =>
        Executables \cap m_files = {}


\* the positions of a thread inside push, and inside try_pop
FqPushPcs == {"push_lock", "push_data", "push_next", "push_tail", "push_unlock"}
FqPopPcs == {"get_tail_lock", "get_tail", "pop_compare", "pop_unlock", "pop_return"}

(***************************************************************************)
(* C17: lock ordering of the fine-grained queue.  A thread owns both       *)
(* mutexes only inside get_tail, which it enters owning head_mutex; push   *)
(* never owns head_mutex and waits for tail_mutex with its node and data   *)
(* cell built; a thread about to take head_mutex owns no mutex; and        *)
(* whenever calls are in progress one of them can take a step, so push and *)
(* try_pop do not deadlock.                                                *)
(***************************************************************************)
C17_LockOrder ==
    /\ \A t \in FqThreads :
          /\ (head_mutex = t /\ tail_mutex = t) => fq_pc[t] = "get_tail"
          /\ fq_pc[t] = "get_tail_lock" => (head_mutex = t /\ tail_mutex # t)
          /\ fq_pc[t] \in FqPushPcs => head_mutex # t
          /\ fq_pc[t] = "push_lock" =>
                /\ tail_mutex # t
                /\ fq_p[t] \in fq_nodes
                /\ fq_new_data[t] # NoVal
          /\ fq_pc[t] = "idle" => (head_mutex # t /\ tail_mutex # t)
    /\ (\E t \in FqThreads : fq_pc[t] # "idle") =>
          (\E t \in FqThreads :
              ENABLED (\/ FqPushLock(t) \/ FqPushData(t) \/ FqPushNext(t)
                       \/ FqPushTail(t) \/ FqPushUnlock(t) \/ FqGetTailLock(t)
                       \/ FqGetTail(t) \/ FqPopHead(t) \/ FqPopUnlock(t)
                       \/ FqPopReturn(t)))

\* a try_pop owns both mutexes while a push waits for tail_mutex
C17_Witness ==
    /\ fq_pc[1] = "get_tail"
    /\ head_mutex = 1
    /\ tail_mutex = 1
    /\ fq_pc[2] = "push_lock"

---------------------------------------------------------------------------
\* the number of next links followed from node n to reach tail, counted from
\* k; -1 when the end of the chain or a destroyed node comes first
RECURSIVE FqSteps(_, _)
FqSteps(n, k) ==
    IF n = tail THEN k
    ELSE IF n = NoNode \/ n \notin fq_nodes \/ k > Cardinality(FqNodeIds) THEN -1
    ELSE FqSteps(fq_next[n], k + 1)

\* the length of the chain from head to tail
FqChainLen == FqSteps(head, 0)

\* the try_pop calls that have taken a node off the chain and not yet returned
FqDetached == {t \in FqThreads : fq_old_head[t] # NoNode}

\* the pushes that have stored their data and not yet advanced tail
FqSplicing == {t \in FqThreads : fq_pc[t] \in {"push_next", "push_tail"}}

\* the number of values stored and not taken off the chain
FqStoredCount == Len(fq_pushed) - Len(fq_popped) - Cardinality(FqDetached)

\* C18: in every state in which no thread holds tail_mutex, under any
\* interleaving of push and try_pop, tail->next is null, tail->data is empty,
\* head and tail are non-null (and live nodes), and following next links from
\* head reaches tail after as many steps as there are stored elements.
C18_StructuralInvariants ==
    tail_mutex = NoThread =>
        /\ head # NoNode
        /\ tail # NoNode
        /\ head \in fq_nodes
        /\ tail \in fq_nodes
        /\ fq_next[tail] = NoNode
        /\ fq_data[tail] = NoVal
        /\ FqChainLen = FqStoredCount

\* two values are stored, two threads are inside try_pop, one of them having
\* taken the first node off the chain, and no thread holds tail_mutex
C18_Witness ==
    /\ tail_mutex = NoThread
    /\ Len(fq_pushed) = 2
    /\ fq_pc[1] = "pop_return"
    /\ fq_old_head[1] # NoNode
    /\ fq_pc[2] = "pop_compare"
    /\ FqChainLen = 1

---------------------------------------------------------------------------
\* the number of real elements of the chain: values stored by a push that has
\* advanced tail past them, and not yet taken off by a try_pop
FqLinked == FqStoredCount - Cardinality(FqSplicing)

\* the nodes of the chain from node n on that hold data, the node at tail
\* included (it holds data while a push is between its assignments)
RECURSIVE FqDataNodes(_, _)
FqDataNodes(n, k) ==
    IF n = NoNode \/ k > Cardinality(FqNodeIds) THEN {}
    ELSE (IF fq_data[n] # NoVal THEN {n} ELSE {}) \cup
         (IF n = tail THEN {} ELSE FqDataNodes(fq_next[n], k + 1))

\* C19 as stated: head and tail are never null, and they refer to the same
\* node only in the state where the chain holds exactly one real element.
C19_Original ==
    /\ head # NoNode
    /\ tail # NoNode
    /\ head = tail => Cardinality(FqDataNodes(head, 0)) = 1

\* C19 as amended: head and tail are never null, and they refer to the same
\* node exactly when the chain holds no real element (only the dummy node).
C19_HeadTailSameIffEmpty ==
    /\ head # NoNode
    /\ tail # NoNode
    /\ head = tail <=> FqLinked = 0

\* after two pushes and two removals head has caught up with tail again, while
\* a try_pop is comparing head with the tail it read
C19_Witness ==
    /\ Len(fq_pushed) = 2
    /\ Len(fq_popped) = 2
    /\ head = tail
    /\ head # 1
    /\ \E t \in FqThreads : fq_pc[t] = "pop_compare"

---------------------------------------------------------------------------
\* thread t is inside try_pop and waits for a mutex that thread u holds
\* inside push
FqPopWaitsForPush(t, u) ==
    /\ fq_pc[t] = "get_tail_lock"
    /\ tail_mutex = u
    /\ fq_pc[u] \in FqPushPcs

\* thread t is inside push and waits for a mutex that thread u holds inside
\* try_pop
FqPushWaitsForPop(t, u) ==
    /\ fq_pc[t] = "push_lock"
    /\ tail_mutex = u
    /\ fq_pc[u] \in FqPopPcs

\* C20 as stated: in no state with at least two real elements in the chain is
\* a try_pop waiting for a mutex held by a push, or a push waiting for a mutex
\* held by a try_pop.
C20_Original ==
    FqLinked >= 2 =>
        \A t, u \in FqThreads :
            ~ FqPopWaitsForPush(t, u) /\ ~ FqPushWaitsForPop(t, u)

\* C20 as amended: whatever the number of elements, insertion and removal
\* block each other only at tail_mutex: head_mutex is held by try_pop calls
\* only, tail_mutex is held by a push from its lock to its return and by a
\* try_pop only for the read of tail in get_tail, and a try_pop that waits
\* for tail_mutex or a push that waits for it finds it held in one of those
\* sections.
C20_BlockOnlyAtTail ==
    \A t \in FqThreads :
        /\ head_mutex = t => fq_pc[t] \in FqPopPcs
        /\ tail_mutex = t =>
              fq_pc[t] \in {"push_data", "push_next", "push_tail",
                            "push_unlock", "get_tail"}
        /\ (fq_pc[t] \in {"get_tail_lock", "push_lock"}
               /\ tail_mutex # NoThread) =>
              /\ tail_mutex # t
              /\ ENABLED (\/ FqPushData(tail_mutex) \/ FqPushNext(tail_mutex)
                          \/ FqPushTail(tail_mutex)
                          \/ FqPushUnlock(tail_mutex)
                          \/ FqGetTail(tail_mutex))

\* the chain holds two real elements and a try_pop, owning head_mutex, waits
\* for tail_mutex, which the push that linked the second element still holds
C20_Witness ==
    /\ FqLinked = 2
    /\ FqChainLen = 2
    /\ FqPopWaitsForPush(2, 1)
    /\ fq_pc[1] = "push_unlock"

---------------------------------------------------------------------------
\* the number of places of the sequence q that hold v
FqCount(q, v) == Cardinality({i \in 1..Len(q) : q[i] = v})

\* the number of the nodes in set N that hold v
FqHolding(N, v) == Cardinality({n \in N : fq_data[n] = v})

\* thread t takes a node off the chain in this step
FqDetaches(t) == fq_old_head[t] = NoNode /\ fq_old_head'[t] # NoNode

\* thread t finds the queue empty in this step
FqFindsEmpty(t) ==
    /\ fq_pc[t] = "pop_compare"
    /\ fq_pc'[t] = "pop_unlock"
    /\ fq_old_head'[t] = NoNode

---------------------------------------------------------------------------
\* thread t of the coarse-grained queue moves from position a to position b
CqMoves(t, a, b) == cq_pc[t] = a /\ cq_pc'[t] = b

\* C22 as stated: notify_one is issued after mut has been released, so the
\* thread that is about to wake a waiter does not hold mut.
C22_Original ==
    \A t \in Threads : cq_pc[t] = "push_notify" => mut # t

(***************************************************************************)
(* C22 as amended: push allocates the shared cell with no lock held, locks *)
(* mut, appends the cell, wakes one waiter if there is one (none           *)
(* otherwise) while it still holds mut, and releases mut when it returns.  *)
(***************************************************************************)
C22_PushOrder ==
    /\ [](\A t \in Threads :
             /\ cq_pc[t] = "push_lock" => (mut # t /\ cq_arg[t] # NoVal)
             /\ cq_pc[t] \in {"push_append", "push_notify", "push_unlock"} =>
                   mut = t
             /\ cq_pc[t] = "push_notify" =>
                   (data_queue # <<>>
                      /\ data_queue[Len(data_queue)] = cq_arg[t]))
    /\ [][\A t \in Threads :
             /\ CqMoves(t, "idle", "push_lock") =>
                   (mut' = mut /\ data_queue' = data_queue)
             /\ CqMoves(t, "push_lock", "push_append") =>
                   (mut = NoThread /\ mut' = t /\ data_queue' = data_queue)
             /\ CqMoves(t, "push_append", "push_notify") =>
                   /\ data_queue' = Append(data_queue, cq_arg[t])
                   /\ data_cond' = data_cond
                   /\ mut' = t
             /\ CqMoves(t, "push_notify", "push_unlock") =>
                   /\ mut = t
                   /\ mut' = t
                   /\ data_queue' = data_queue
                   /\ data_cond' \subseteq data_cond
                   /\ Cardinality(data_cond') =
                        (IF data_cond = {} THEN 0
                         ELSE Cardinality(data_cond) - 1)
             /\ CqMoves(t, "push_unlock", "idle") =>
                   (mut = t /\ mut' = NoThread /\ data_cond' = data_cond)]_cqVars

\* a push that holds mut has appended its cell and is about to wake one of
\* two suspended threads
C22_Witness ==
    /\ cq_pc[1] = "push_notify"
    /\ mut = 1
    /\ data_cond = {2, 3}
    /\ data_queue = <<cq_arg[1]>>

---------------------------------------------------------------------------
\* the positions of a thread inside try_pop
TpPcs == {"tp_check", "tp_take", "tp_unlock"}

(***************************************************************************)
(* C23: try_pop (both overloads) never suspends on the condition variable: *)
(* a thread inside try_pop holds mut and is not among the waiters.  On an  *)
(* empty queue it returns failure, leaving the queue and the output        *)
(* argument as they were; on a non-empty queue it returns the front item   *)
(* and removes exactly that item.                                          *)
(***************************************************************************)
C23_TryPop ==
    /\ [](\A t \in Threads :
             /\ cq_pc[t] \in TpPcs => (mut = t /\ t \notin data_cond)
             /\ cq_pc[t] = "tp_take" => data_queue # <<>>)
    /\ [](~cq_ub)
    /\ [][\A t \in Threads :
             /\ cq_pc[t] \in TpPcs => cq_pc'[t] \in TpPcs \cup {"idle"}
             /\ CqMoves(t, "tp_check", "tp_unlock") =>
                   /\ data_queue = <<>>
                   /\ data_queue' = data_queue
                   /\ cq_res'[t] = cq_res[t]
                   /\ cq_res[t] = NoVal
                   /\ cq_popped' = cq_popped
             /\ CqMoves(t, "tp_check", "tp_take") =>
                   (data_queue # <<>> /\ data_queue' = data_queue)
             /\ CqMoves(t, "tp_take", "tp_unlock") =>
                   /\ cq_res'[t] = Head(data_queue)
                   /\ data_queue' = Tail(data_queue)
                   /\ cq_popped' = Append(cq_popped, Head(data_queue))]_cqVars

\* a try_pop on the queue emptied by an earlier removal is returning failure
\* while another thread is suspended in wait_and_pop
C23_Witness ==
    /\ cq_pc[1] = "tp_unlock"
    /\ cq_res[1] = NoVal
    /\ data_queue = <<>>
    /\ cq_popped = <<2>>
    /\ data_cond = {2}

---------------------------------------------------------------------------
\* the positions at which the next statement reads or writes data_queue
CqAccessPcs == {"push_append", "wp_check", "wp_take", "tp_check", "tp_take",
                "em_unlock"}

\* the positions inside the scope of a guard that owns mut
CqLockedPcs == CqAccessPcs \cup {"push_notify", "push_unlock", "wp_unlock",
                                 "tp_unlock"}

---------------------------------------------------------------------------
\* the nodes whose mutex thread t holds
LHeld(t) == {n \in DOMAIN l_m : l_m[n] = t}

---------------------------------------------------------------------------
\* the member functions that traverse the list
LTraversals == {"for_each", "find_first_if", "remove_if"}

---------------------------------------------------------------------------
\* thread u holds the mutex of node n, waits for it, visits n, or is about to
\* read a member of n
LUses(u, n) ==
    \/ l_m[n] = u
    \/ l_lk[u] = n
    \/ l_next_lk[u] = n
    \/ l_nxt[u] = n
    \/ l_new[u] = n

---------------------------------------------------------------------------
---------------------------------------------------------------------------
\* the places of the data nodes, front to back, whose data satisfies P
LMatches(P) == {i \in 1..Len(ChainNodes) : l_data[ChainNodes[i]] \in P}

\* the first data node, front to back, whose data satisfies P; NoNode when
\* there is none
LFirstMatch(P) ==
    IF LMatches(P) = {} THEN NoNode
    ELSE ChainNodes[CHOOSE i \in LMatches(P) : \A j \in LMatches(P) : i <= j]

(***************************************************************************)
(* C29: find_first_if(p) called by a thread that uses the list alone: p is *)
(* evaluated on a node only when no node in front of it satisfies p; the   *)
(* call ends at the first data node whose data satisfies p and returns its *)
(* data, or returns the empty handle when no node matches; and in both     *)
(* cases no node mutex is held after the return.                           *)
(***************************************************************************)
C29_FindFirstIf ==
    \A t \in ListThreads :
        /\ (l_op[t] = "find_first_if" /\ l_pc[t] = "test") =>
              \A i \in LMatches(l_pred[t]) :
                  \E j \in 1..i : ChainNodes[j] = l_nxt[t]
        /\ (l_op[t] = "find_first_if" /\ l_pc[t] = "exit") =>
              IF LFirstMatch(l_pred[t]) = NoNode
              THEN /\ l_res[t] = NoVal
                   /\ l_next[l_cur[t]] = NoNode
              ELSE /\ l_nxt[t] = LFirstMatch(l_pred[t])
                   /\ l_res[t] = l_data[LFirstMatch(l_pred[t])]
                   /\ LHeld(t) = {l_nxt[t]}
        /\ l_pc[t] = "idle" => (LHeld(t) = {} /\ l_res[t] = NoVal)

\* the list holds 10, 9, 7 and find_first_if with the predicate "equals 9" is
\* returning 9, found at the second data node, whose mutex it still holds
C29_Witness ==
    /\ l_op[1] = "find_first_if"
    /\ l_pc[1] = "exit"
    /\ l_pred[1] = {9}
    /\ ListContents = <<10, 9, 7>>
    /\ l_res[1] = 9
    /\ l_nxt[1] = ChainNodes[2]

---------------------------------------------------------------------------
\* the positions of a thread inside pop
SPopPcs == {"pop_check", "pop_top", "pop_remove", "pop_unlock", "pop_throw"}

(***************************************************************************)
(* C30: pop (both overloads) copies the top value and removes it as two    *)
(* steps of one critical section.  When the copy fails, nothing has been   *)
(* removed: the stack is as it was when pop took the mutex, and the mutex  *)
(* is released when the exception leaves pop.  The element is removed only *)
(* after a copy that succeeded, and it is the element copied.              *)
(***************************************************************************)
C30_PopCopyThenRemove ==
    /\ [](\A t \in StackThreads :
             /\ s_pc[t] \in SPopPcs => s_m = t
             /\ s_pc[t] \in {"pop_check", "pop_top", "pop_throw"} =>
                   (s_data = s_before[t] /\ s_res[t] = NoVal)
             /\ s_pc[t] = "pop_remove" =>
                   /\ s_data = s_before[t]
                   /\ s_data # << >>
                   /\ s_res[t] = StackTop(s_data)
             /\ s_pc[t] = "pop_unlock" =>
                   s_before[t] = StackPush(s_data, s_res[t])
             /\ s_pc[t] = "idle" => s_m # t)
    /\ [][\A t \in StackThreads :
             /\ (s_pc[t] = "pop_throw" /\ s_pc'[t] = "idle") =>
                   /\ s_data' = s_data
                   /\ s_popped' = s_popped
                   /\ s_m' = NoThread
                   /\ s_out'[t] = s_exc[t]
             /\ (s_pc[t] \in SPopPcs /\ s_data' # s_data) =>
                   /\ s_pc[t] = "pop_remove"
                   /\ s_data' = StackPop(s_data)]_stackVars

\* two values are on the stack and a pop whose copy of the top value failed has
\* ended with that exception: both values are still there and the mutex is free
C30_Witness ==
    /\ s_out[1] = "copy_failed"
    /\ s_pc[1] = "idle"
    /\ s_m = NoThread
    /\ Len(s_data) = 2
    /\ s_data = s_pushed
    /\ s_popped = << >>

---------------------------------------------------------------------------
(***************************************************************************)
(* C31: the two formulations of swap are equivalent.  Run side by side on  *)
(* the same calls, the version with deferred unique_locks and the version  *)
(* with adopted lock_guards are at the same statement with the same        *)
(* mutexes owned and the same values in the instances in every state, and  *)
(* whatever step one version can take the other can take too (the same     *)
(* self-swap return, the same choices and outcomes inside std::lock); in   *)
(* the second version the unique_locks own both mutexes exactly from the   *)
(* return of std::lock to their destructors, and none after the return.    *)
(***************************************************************************)
C31_SwapVersionsEquivalent ==
    /\ y_detail = x_detail
    /\ y_m = x_m
    /\ y_pc = x_pc
    /\ y_lhs = x_lhs
    /\ y_rhs = x_rhs
    /\ \A t \in SwapThreads :
          /\ y_owns[t] = {o \in Objs : y_m[o] = t}
          /\ y_pc[t] \in {"locked", "unlock_b"} =>
                y_owns[t] = {y_lhs[t], y_rhs[t]}
          /\ y_pc[t] \in {"idle", "check", "lock"} => y_owns[t] = {}
          /\ \A l, r \in Objs :
                (ENABLED SwCall(t, l, r)) => (ENABLED Sw2Call(t, l, r))
          /\ (ENABLED SwCheck(t)) <=> (ENABLED Sw2Check(t))
          /\ \A o \in Objs :
                /\ (ENABLED SwLockFirstOn(t, o)) <=>
                      (ENABLED Sw2LockFirstOn(t, o))
                /\ (ENABLED SwTryOkOn(t, o)) <=> (ENABLED Sw2TryOkOn(t, o))
          /\ (ENABLED SwBackOff(t)) <=> (ENABLED Sw2BackOff(t))
          /\ (ENABLED SwExchange(t)) <=> (ENABLED Sw2Exchange(t))
          /\ (ENABLED SwUnlockB(t)) <=> (ENABLED Sw2UnlockB(t))
          /\ (ENABLED SwUnlockA(t)) <=> (ENABLED Sw2UnlockA(t))

\* in both versions one swap has returned, the values are exchanged, and a
\* thread inside std::lock owns one mutex while the other thread owns the
\* other one
C31_Witness ==
    /\ x_done = 1
    /\ y_detail = SwapDetail(OrigDetail, "a", "b")
    /\ x_detail = y_detail
    /\ y_pc[1] = "try"
    /\ y_pc[2] = "try"
    /\ y_owns[1] = {"a"}
    /\ y_owns[2] = {"b"}
    /\ x_m = [o \in Objs |-> IF o = "a" THEN 1 ELSE 2]

\* the mutex thread t acquired last among those it still holds
KLast(t) == k_held[t][Len(k_held[t])]

\* C32: whatever sequence of lock(), try_lock() and unlock() calls a thread
\* issues, unlocks in any order: an acquisition goes through only when the
\* thread holds no hierarchical mutex or the rank of the mutex is strictly
\* lower than the rank of the mutex it acquired last among those it still
\* holds, and between calls a thread that holds no hierarchical mutex has
\* this_thread_hierarchy_value at ULONG_MAX, which is also its first value.
C32_RankTracking ==
    \A t \in RankThreads :
        /\ k_pc[t] \in {"lock_update", "try_update"} =>
               \/ k_held[t] = << >>
               \/ hierarchy_value[k_m[t]] < hierarchy_value[KLast(t)]
        /\ (k_pc[t] = "idle" /\ k_held[t] = << >>) => k_this[t] = ULONG_MAX

\* thread t leaves the step "from" of a call in this step
KLeaves(t, from) == k_pc[t] \in from /\ k_pc'[t] # k_pc[t]

\* C33: a rejected acquisition changes nothing. When lock() or try_lock()
\* finds this_thread_hierarchy_value <= hierarchy_value, the call ends there
\* with the logic_error: internal_mutex has the owner it had,
\* this_thread_hierarchy_value and previous_hierarchy_value are unchanged and
\* the call does not go on to internal_mutex. When try_lock() finds
\* internal_mutex owned, the call ends with false and the same is unchanged.
C33_RejectedChangesNothing ==
    [][\A t \in RankThreads :
          /\ ( /\ KLeaves(t, {"lock_check", "try_check"})
               /\ k_this[t] <= hierarchy_value[k_m[t]] ) =>
                 /\ k_pc'[t] = "idle"
                 /\ k_out'[t] = "logic_error"
                 /\ k_owner' = k_owner
                 /\ k_this' = k_this
                 /\ k_prev' = k_prev
                 /\ k_held' = k_held
          /\ ( /\ KLeaves(t, {"try_lock"})
               /\ k_owner[k_m[t]] # NoThread ) =>
                 /\ k_pc'[t] = "idle"
                 /\ k_out'[t] = "false"
                 /\ k_owner' = k_owner
                 /\ k_this' = k_this
                 /\ k_prev' = k_prev
                 /\ k_held' = k_held
      ]_rankVars

\* thread 1 holds low_level_mutex and its lock() of high_level_mutex threw;
\* thread 2's try_lock() of low_level_mutex returned false
C33_Witness ==
    /\ k_out = <<"logic_error", "false">>
    /\ k_m = <<"high_level_mutex", "low_level_mutex">>
    /\ k_held = << <<"low_level_mutex">>, << >> >>
    /\ k_this = <<5000, ULONG_MAX>>
    /\ k_owner["high_level_mutex"] = NoThread

\* thread t waits in internal_mutex.lock() for a mutex another thread owns
HWaits(t) == h_pc[t] = "lock" /\ h_owner[HMut(t)] # NoThread

\* every thread of S waits for a mutex owned by a thread of S
HWaitCycle(S) == \A t \in S : HWaits(t) /\ h_owner[HMut(t)] \in S

\* C34: threads running thread_a and thread_b in any mix, which lock
\* high_level_mutex, low_level_mutex and other_mutex through lock_guards
\* only, cannot deadlock: no set of threads is ever such that each waits for
\* a mutex owned by a thread of the set, and every thread is outside
\* thread_a and thread_b again and again, having left the function it was in
\* completed or with the logic_error.
C34_HierDeadlockFree ==
    /\ [](\A S \in (SUBSET HierThreads) \ {{}} : ~HWaitCycle(S))
    /\ [](\A t \in HierThreads :
             h_out[t][2] \in {"none", "completed", "logic_error"})
    /\ \A t \in HierThreads : []<>(h_pc[t] = "idle")

\* thread 1, in thread_a, waits for high_level_mutex; thread 2, in thread_a,
\* owns it and low_level_mutex
C34_Witness ==
    /\ h_prog = <<"thread_a", "thread_a">>
    /\ HWaits(1)
    /\ HMut(1) = "high_level_mutex"
    /\ h_owner["high_level_mutex"] = 2
    /\ h_owner["low_level_mutex"] = 2

\* C35: once a thread has run x.process_data(malicious_function) in foo(),
\* unprotected refers to the data member of x, and the thread is inside
\* unprotected->do_something() without owning x.m; so (C35_Witness) it can
\* be there while another thread is inside its callback in process_data.
C35_LeakedReference ==
    \A t \in WrapThreads :
        /\ w_pc[t] \in {"use", "using"} => w_unprotected = "x.data"
        /\ w_pc[t] = "using" => w_m # t

\* thread 1 is inside unprotected->do_something() on x.data while thread 2
\* owns x.m and is about to run malicious_function(data)
C35_Witness ==
    /\ w_pc[1] = "using"
    /\ w_unprotected = "x.data"
    /\ w_pc[2] = "pd_func"
    /\ w_m = 2

\* the steps of a call between the acquisition of some_mutex in get_lock and
\* the end of the scope of process_data
UHoldingPcs ==
    {"gl_prepare", "gl_return", "gl_destroy", "pd_init", "pd_temp", "pd_do",
     "pd_exit"}

\* the live unique_lock objects of thread t that own some_mutex
UOwners(t) == {i \in u_live[t] : u_owns[t][i]}

\* C36: from its acquisition in get_lock, across the return, to the end of
\* the scope of process_data the calling thread owns some_mutex without a
\* gap (no unlock so far), exactly one of its live unique_lock objects owns
\* it, and when process_data has returned the mutex has been unlocked
\* exactly once and no unique_lock object is left.
C36_OwnershipTransfer ==
    \A t \in LockThreads :
        /\ u_pc[t] \in UHoldingPcs =>
               /\ u_mutex = t
               /\ u_released[t] = 0
               /\ Cardinality(UOwners(t)) = 1
        /\ (u_pc[t] = "idle" /\ u_out[t] = "done") =>
               /\ u_released[t] = 1
               /\ u_live[t] = {}
               /\ u_mutex # t
        /\ u_pc[t] \in {"idle", "gl_lock"} => UOwners(t) = {}

\* thread 1 has moved the lock out of get_lock and into lk of process_data,
\* the emptied temporary still live, while thread 2 waits in get_lock
C36_Witness ==
    /\ u_pc[1] = "pd_temp"
    /\ u_live[1] = {"returned", "process_data::lk"}
    /\ UOwners(1) = {"process_data::lk"}
    /\ u_mutex = 1
    /\ u_pc[2] = "gl_lock"

\* C37: whichever of the functions that start threads is run, std::terminate()
\* is never called, and when the function is over every thread it started
\* has been joined or detached.
C37_NoFatalMisuse ==
    /\ t_out # "terminate"
    /\ t_pc = "done" => \A i \in TIds : t_thr[i] \in {"none", "joined", "detached"}

\* the scoped_thread object of f2 is live
ScopedLive == \E k \in 1..Len(t_live) : t_live[k] = "scoped_thread::t"

\* C38: scoped_thread constructed from a std::thread that owns no thread
\* throws logic_error, the object never becomes live and nothing is joined;
\* constructed from one that owns a thread it owns that thread, the source
\* owns nothing, and when f2 is over, by return or by an exception, the
\* thread has been joined exactly once after its function returned, without
\* std::terminate().
C38_ScopedThread ==
    /\ t_prog = "f2_no_thread" =>
          /\ ~ScopedLive
          /\ t_ip <= 2
          /\ t_pc \in {"unwind", "done"} => t_exc = "logic_error"
          /\ t_pc = "done" => t_out = "logic_error"
          /\ \A i \in TIds : t_joins[i] = 0
    /\ ScopedLive =>
          /\ t_own["scoped_thread::t"] = 1
          /\ t_own["tmp"] = 0
          /\ t_thr[1] = "joinable"
          /\ t_joins[1] = 0
    /\ (t_prog = "f2" /\ t_pc = "done") =>
          /\ t_out \in {"returned", "exception"}
          /\ t_thr[1] = "joined"
          /\ t_joins[1] = 1
          /\ TFinished(1)

\* f2 was left by an exception of do_something_in_current_state() and the
\* destructor of its scoped_thread has joined the thread
C38_Witness ==
    /\ t_prog = "f2"
    /\ t_out = "exception"
    /\ t_joins[1] = 1
    /\ t_thr[1] = "joined"

=============================================================================
